---- MODULE Spec2Model ----
(***************************************************************************)
(* DSY Core: generation routing and multi-provider orchestration layer.    *)
(*                                                                         *)
(* The model covers the two credential pools (Gemini and chatbot), the     *)
(* Prompt Optimizer (optimizePrompt), the vision generation entry point    *)
(* (generateWebPageWithImages), the fast text entry point                  *)
(* (generateWebPage), the Generation Router (generateCode), the chatbot    *)
(* entry point (sendChatMessage) and the streaming entry point             *)
(* (generateCodeStream).                                                   *)
(*                                                                         *)
(* Credentials are opaque secrets, so a pool of n configured keys is the   *)
(* sequence <<1, ..., n>>; 0 stands for JavaScript's null.  An async       *)
(* function runs to completion between two awaits, so every action is the  *)
(* code from one await point to the next.                                  *)
(***************************************************************************)
EXTENDS Integers, Sequences, FiniteSets, TLC

\* ------------------------------------------------------------------ bounds
MaxKeys == 3        \* largest number of configured Gemini keys explored
MaxChatKeys == 3    \* largest number of configured chatbot keys explored
MaxChats == 2       \* largest number of saved chats in the history
MaxItems == 3       \* largest number of blocks and stretches of text in a parsed response
MaxAssets == 6      \* largest number of assets handed to an entry point
MaxMessages == 4    \* largest number of messages in the chatbot conversation

NULL == 0
KeyIds == 1..MaxKeys

VARIABLES
  GEMINI_API_KEYS,    \* geminiService.js:16, fixed at module load
  failedKeys,         \* geminiService.js:20
  CHATBOT_API_KEYS,   \* chatbotService.js:9, fixed at module load
  SAMBANOVA_API_KEY,  \* whether the SambaNova key is configured (non-empty)
  failedChatbotKeys,  \* chatbotService.js:13
  sel,                \* the last pool operation performed and what it returned
  cov,                \* the selections of a select-then-mark-failed run
  call,               \* the entry point being executed: its locals and its outcome
  app,                \* the application's state (CodeContext) and its pending calls
  parser,             \* a text handed to the Output Parser and what it returned
  conc                \* two calls executing concurrently: the locals of each

vars == <<GEMINI_API_KEYS, failedKeys, CHATBOT_API_KEYS, SAMBANOVA_API_KEY,
          failedChatbotKeys, sel, cov, call, app, parser, conc>>

\* ------------------------------------------------------------ helpers
Range(s) == {s[i] : i \in 1..Len(s)}

KeySeq(n) == [i \in 1..n |-> i]

\* Array.prototype.filter: the subsequence of s whose elements are in keep
RECURSIVE FilterSeq(_, _)
FilterSeq(s, keep) ==
  IF s = <<>> THEN <<>>
  ELSE IF Head(s) \in keep THEN <<Head(s)>> \o FilterSeq(Tail(s), keep)
       ELSE FilterSeq(Tail(s), keep)

Min(a, b) == IF a < b THEN a ELSE b

\* ------------------------------------------------------ Credential Pool
\* getRandomKey(excludeKey) of geminiService.js.  Math.random makes the call
\* nondeterministic, so the operator yields the set of its possible outcomes,
\* each the returned key and the failed set the call leaves behind.
GetRandomKeyNoExclude(keys, failed, excludeKey) ==
  IF Len(keys) = 0 THEN {[key |-> NULL, failed |-> failed]}
  ELSE LET availableKeys == FilterSeq(keys, Range(keys) \ failed)
       IN IF Len(availableKeys) = 0
          THEN {[key |-> keys[i], failed |-> {}] : i \in 1..Len(keys)}
          ELSE {[key |-> availableKeys[i], failed |-> failed] :
                   i \in 1..Len(availableKeys)}

GetRandomKeyNoClear(keys, failed, excludeKey) ==
  IF Len(keys) = 0 THEN {[key |-> NULL, failed |-> failed]}
  ELSE LET availableKeys == FilterSeq(keys, (Range(keys) \ failed) \ {excludeKey})
       IN IF Len(availableKeys) = 0
          THEN LET resetKeys == FilterSeq(keys, Range(keys) \ {excludeKey})
               IN IF Len(resetKeys) = 0
                  THEN {[key |-> keys[1], failed |-> failed]}
                  ELSE {[key |-> resetKeys[i], failed |-> failed] :
                           i \in 1..Len(resetKeys)}
          ELSE {[key |-> availableKeys[i], failed |-> failed] :
                   i \in 1..Len(availableKeys)}

GetRandomKeyNullWhenAlone(keys, failed, excludeKey) ==
  IF Len(keys) = 0 THEN {[key |-> NULL, failed |-> failed]}
  ELSE LET availableKeys == FilterSeq(keys, (Range(keys) \ failed) \ {excludeKey})
       IN IF Len(availableKeys) = 0
          THEN LET resetKeys == FilterSeq(keys, Range(keys) \ {excludeKey})
               IN IF Len(resetKeys) = 0
                  THEN {[key |-> NULL, failed |-> {}]}
                  ELSE {[key |-> resetKeys[i], failed |-> {}] :
                           i \in 1..Len(resetKeys)}
          ELSE {[key |-> availableKeys[i], failed |-> failed] :
                   i \in 1..Len(availableKeys)}

GetRandomKeyIgnoreFailed(keys, failed, excludeKey) ==
  IF Len(keys) = 0 THEN {[key |-> NULL, failed |-> failed]}
  ELSE LET availableKeys == FilterSeq(keys, Range(keys) \ {excludeKey})
       IN IF Len(availableKeys) = 0
          THEN {[key |-> keys[1], failed |-> {}]}
          ELSE {[key |-> availableKeys[i], failed |-> failed] :
                   i \in 1..Len(availableKeys)}

GetRandomKeyAlwaysClears(keys, failed, excludeKey) ==
  IF Len(keys) = 0 THEN {[key |-> NULL, failed |-> failed]}
  ELSE LET availableKeys == FilterSeq(keys, (Range(keys) \ failed) \ {excludeKey})
       IN IF Len(availableKeys) = 0
          THEN LET resetKeys == FilterSeq(keys, Range(keys) \ {excludeKey})
               IN IF Len(resetKeys) = 0
                  THEN {[key |-> keys[1], failed |-> {}]}
                  ELSE {[key |-> resetKeys[i], failed |-> {}] :
                           i \in 1..Len(resetKeys)}
          ELSE {[key |-> availableKeys[i], failed |-> {}] :
                   i \in 1..Len(availableKeys)}

GetRandomKey(keys, failed, excludeKey) ==
  IF Len(keys) = 0 THEN {[key |-> NULL, failed |-> failed]}
  ELSE LET availableKeys == FilterSeq(keys, (Range(keys) \ failed) \ {excludeKey})
       IN IF Len(availableKeys) = 0
          THEN LET resetKeys == FilterSeq(keys, Range(keys) \ {excludeKey})
               IN IF Len(resetKeys) = 0
                  THEN {[key |-> keys[1], failed |-> {}]}
                  ELSE {[key |-> resetKeys[i], failed |-> {}] :
                           i \in 1..Len(resetKeys)}
          ELSE {[key |-> availableKeys[i], failed |-> failed] :
                   i \in 1..Len(availableKeys)}

\* getRandomKey() of chatbotService.js: no exclusion, and the reset path
\* returns the first configured key.
ChatGetRandomKey(keys, failed) ==
  IF Len(keys) = 0 THEN {[key |-> NULL, failed |-> failed]}
  ELSE LET availableKeys == FilterSeq(keys, Range(keys) \ failed)
       IN IF Len(availableKeys) = 0
          THEN {[key |-> keys[1], failed |-> {}]}
          ELSE {[key |-> availableKeys[i], failed |-> failed] :
                   i \in 1..Len(availableKeys)}

\* markKeyFailed(key): Set.prototype.add
MarkKeyFailedForgets(failed, key) == failed

MarkKeyFailedToggles(failed, key) ==
  IF key \in failed THEN failed \ {key} ELSE failed \cup {key}

MarkKeyFailed(failed, key) == failed \cup {key}

\* resetFailedKeys(): Set.prototype.clear
ResetFailedKeys(failed) == {}

\* getFailedKeyCount(): Set.prototype.size
GetFailedKeyCount(failed) == Cardinality(failed)


\* ------------------------------------------------------ Prompt Optimizer
\* The provider's text is a sequence of tokens:
\*   "TEXT" / "JSON"   the section markers ---TEXT--- and ---JSON---
\*   "ws"              whitespace
\*   "prose"           text without whitespace, braces, fences or markers
\*   "fence_json"      ```json          "fence"   ```
\*   "obj_LC"          a JSON object with truthy layout and colors
\*   "obj_L", "obj_C"  a JSON object with only layout / only colors
\*   "obj_E"           the JSON object {}
\*   "null"            the JSON literal null
ObjTokens == {"obj_LC", "obj_L", "obj_C", "obj_E"}
JsonTokens == ObjTokens \cup {"null"}

JNull == [null |-> TRUE, layout |-> FALSE, colors |-> FALSE]

\* JSON.parse of one value token
JsonValue(t) ==
  IF t = "null" THEN JNull
  ELSE [null |-> FALSE, layout |-> t \in {"obj_LC", "obj_L"},
        colors |-> t \in {"obj_LC", "obj_C"}]

\* index of the first t in s, 0 when there is none
IndexOf(s, t) ==
  IF \E i \in 1..Len(s) : s[i] = t
  THEN CHOOSE i \in 1..Len(s) : s[i] = t /\ \A j \in 1..(i - 1) : s[j] # t
  ELSE 0

RECURSIVE DropLeadingWs(_)
DropLeadingWs(s) ==
  IF s # <<>> /\ Head(s) = "ws" THEN DropLeadingWs(Tail(s)) ELSE s

RECURSIVE DropTrailingWs(_)
DropTrailingWs(s) ==
  IF s # <<>> /\ s[Len(s)] = "ws" THEN DropTrailingWs(SubSeq(s, 1, Len(s) - 1)) ELSE s

\* String.prototype.trim
Trim(s) == DropTrailingWs(DropLeadingWs(s))

\* replace(/```json?\s*/gi, ''): every ```json and the whitespace after it
RECURSIVE StripJsonFences(_)
StripJsonFences(s) ==
  IF s = <<>> THEN <<>>
  ELSE IF Head(s) = "fence_json" THEN StripJsonFences(DropLeadingWs(Tail(s)))
       ELSE <<Head(s)>> \o StripJsonFences(Tail(s))

\* replace(/```\s*$/g, ''): a closing fence at the very end
StripClosingFence(s) ==
  LET t == DropTrailingWs(s)
  IN IF t # <<>> /\ t[Len(t)] = "fence" THEN SubSeq(t, 1, Len(t) - 1) ELSE s

\* JSON.parse: [ok, value]; it throws unless the text is exactly one value
JsonParse(s) ==
  IF Len(s) = 1 /\ s[1] \in JsonTokens
  THEN [ok |-> TRUE, value |-> JsonValue(s[1])]
  ELSE [ok |-> FALSE, value |-> JNull]

\* rawOutput.match(/\{[\s\S]*"layout"[\s\S]*\}/): from the first brace to the
\* last one, provided "layout" occurs in between; <<>> when there is no match
LayoutBlockMatch(raw) ==
  LET objs == {i \in 1..Len(raw) : raw[i] \in ObjTokens}
      lays == {i \in 1..Len(raw) : raw[i] \in {"obj_LC", "obj_L"}}
  IN IF lays = {} THEN <<>>
     ELSE LET a == CHOOSE i \in objs : \A j \in objs : i <= j
              b == CHOOSE i \in objs : \A j \in objs : j <= i
          IN SubSeq(raw, a, b)

\* parseOptimizationOutput(rawOutput) -> {displayText, designJSON}
ParseOptimizationOutput(rawOutput) ==
  LET ti == IndexOf(rawOutput, "TEXT")
      tRest == DropLeadingWs(SubSeq(rawOutput, ti + 1, Len(rawOutput)))
      tj == IndexOf(tRest, "JSON")
      textGroup == IF tj = 0 THEN tRest ELSE SubSeq(tRest, 1, tj - 1)
      ji == IndexOf(rawOutput, "JSON")
      jsonGroup == DropLeadingWs(SubSeq(rawOutput, ji + 1, Len(rawOutput)))
      jsonStr == Trim(StripClosingFence(StripJsonFences(Trim(jsonGroup))))
      first == JsonParse(jsonStr)
      second == JsonParse(LayoutBlockMatch(rawOutput))
  IN [displayText |-> IF ti > 0 /\ textGroup # <<>> THEN Trim(textGroup) ELSE rawOutput,
      designJSON |->
        IF ji > 0 /\ jsonGroup # <<>>
        THEN IF first.ok THEN first.value
             ELSE IF second.ok THEN second.value ELSE JNull
        ELSE JNull]

\* The texts a provider may answer an optimize request with.
OptRawOutputs ==
  { <<"TEXT", "ws", "prose", "ws", "JSON", "ws", "obj_LC">>,
    <<"TEXT", "ws", "prose", "ws", "JSON", "ws", "fence_json", "ws", "obj_LC", "ws", "fence">>,
    <<"TEXT", "ws", "prose", "ws", "JSON", "ws", "obj_LC", "ws", "prose">>,
    <<"TEXT", "ws", "prose", "ws", "JSON", "ws", "obj_L">>,
    <<"TEXT", "prose", "JSON", "obj_C">>,
    <<"TEXT", "prose", "JSON", "null">>,
    <<"TEXT", "ws", "prose">>,
    <<"TEXT", "ws", "JSON", "ws", "obj_LC">>,
    <<"prose">>,
    <<>> }

\* What one provider call may come back with: HTTP 429, another non-2xx
\* status, a network failure (fetch rejects), or 2xx with a text.
OptResponses ==
  {[status |-> st, text |-> <<>>] : st \in {"429", "error", "network"}}
    \cup {[status |-> "ok", text |-> t] : t \in OptRawOutputs}

maxJsonRetries == 3

\* lines 381-390: the extracted JSON is accepted
DesignValidLayoutOnly(designJSON) == ~designJSON.null /\ designJSON.layout

DesignValid(designJSON) ==
  ~designJSON.null /\ designJSON.layout /\ designJSON.colors

\* line 338: the loop condition
OptLoopRunsOnce(jsonAttempt) == jsonAttempt < 1

OptLoopRuns(jsonAttempt) == jsonAttempt < maxJsonRetries

\* ---------------------------------------------------------- Output Parser
\* Generated content is a sequence of items, each a fenced code block
\* (```lang body ```) or a stretch of unfenced text.  A body is a sequence
\* of chunks [t, n]: a kind of text and the number of characters it has.
\*   "ws"          whitespace
\*   "txt"         text with no markup, braces, colons or semicolons
\*   "doctype"     <!DOCTYPE html>      "html_open"  <html>   "html_close"  </html>
\*   "head"        <head>               "body"       <body>
\*   "style_open"  <style>              "style_close" </style>
\*   "rule"        CSS rules: selectors, braces, declarations
\*   "fence", "tag"  a ``` and the language tag after it, in flattened text
Ws == [t |-> "ws", n |-> 1]
Txt(n) == [t |-> "txt", n |-> n]
Rule(n) == [t |-> "rule", n |-> n]
Doctype == [t |-> "doctype", n |-> 15]
HtmlOpen == [t |-> "html_open", n |-> 6]
HtmlClose == [t |-> "html_close", n |-> 7]
HeadTag == [t |-> "head", n |-> 6]
BodyTag == [t |-> "body", n |-> 6]
StyleOpen == [t |-> "style_open", n |-> 7]
StyleClose == [t |-> "style_close", n |-> 8]
FenceChunk == [t |-> "fence", n |-> 3]
\* ---FILE: <path>--- and ---END---, the multi-file markers
FileMarker(path) == [t |-> "file", n |-> 16, path |-> path]
EndMarker == [t |-> "end", n |-> 9]

Block(lang, body) == [fenced |-> TRUE, lang |-> lang, body |-> body]
Raw(body) == [fenced |-> FALSE, lang |-> "", body |-> body]

\* String.prototype.length
RECURSIVE StrLen(_)
StrLen(s) == IF s = <<>> THEN 0 ELSE Head(s).n + StrLen(Tail(s))

RECURSIVE DropLeadingWsChunks(_)
DropLeadingWsChunks(s) ==
  IF s # <<>> /\ Head(s).t = "ws" THEN DropLeadingWsChunks(Tail(s)) ELSE s

RECURSIVE DropTrailingWsChunks(_)
DropTrailingWsChunks(s) ==
  IF s # <<>> /\ s[Len(s)].t = "ws"
  THEN DropTrailingWsChunks(SubSeq(s, 1, Len(s) - 1)) ELSE s

\* String.prototype.trim on chunks
TrimChunks(s) == DropTrailingWsChunks(DropLeadingWsChunks(s))

HasKind(s, kinds) == \E i \in 1..Len(s) : s[i].t \in kinds

\* first index at or after from whose chunk is of one of the kinds, else 0
FirstKind(s, kinds, from) ==
  IF \E i \in from..Len(s) : s[i].t \in kinds
  THEN CHOOSE i \in from..Len(s) :
         s[i].t \in kinds /\ \A j \in from..(i - 1) : s[j].t \notin kinds
  ELSE 0

LastKind(s, kinds) ==
  IF \E i \in 1..Len(s) : s[i].t \in kinds
  THEN CHOOSE i \in 1..Len(s) :
         s[i].t \in kinds /\ \A j \in (i + 1)..Len(s) : s[j].t \notin kinds
  ELSE 0

\* the language tag written after an opening fence
LangTag(lang) == [t |-> "tag", n |-> IF lang \in {"html", "HTML"} THEN 4 ELSE 3,
                  lang |-> lang]

\* the content as one text: fences and tags written out
RECURSIVE Flatten(_)
Flatten(content) ==
  IF content = <<>> THEN <<>>
  ELSE LET it == Head(content)
       IN (IF it.fenced
           THEN <<FenceChunk>>
                  \o (IF it.lang = "" THEN <<>> ELSE <<LangTag(it.lang)>>)
                  \o <<Ws>> \o it.body \o <<FenceChunk>>
           ELSE it.body)
          \o Flatten(Tail(content))

\* String.prototype.toLowerCase on a language tag
ToLowerCase(lang) == IF lang = "HTML" THEN "html" ELSE lang

\* first index at or after from whose chunk is not whitespace, else Len + 1
FirstNonWs(text, from) ==
  IF \E i \in from..Len(text) : text[i].t # "ws"
  THEN CHOOSE i \in from..Len(text) :
         text[i].t # "ws" /\ \A j \in from..(i - 1) : text[j].t = "ws"
  ELSE Len(text) + 1

\* the indexes of the ``` of the text, in order
FenceIndexes(text) ==
  LET IsFence(i) == text[i].t = "fence"
  IN SelectSeq([i \in 1..Len(text) |-> i], IsFence)

\* one match of the pattern: the opening fence, the tag if one follows it,
\* whitespace, and the body up to the closing fence
BlockAt(text, open, close) ==
  LET tagged == text[open + 1].t = "tag"
      start == FirstNonWs(text, IF tagged THEN open + 2 ELSE open + 1)
  IN Block(IF tagged THEN ToLowerCase(text[open + 1].lang) ELSE "",
           SubSeq(text, start, close - 1))

\* lines 739-750: the matches of /```(\w+)?\s*\n?([\s\S]*?)```/g in the text,
\* in order.  A match runs from a fence to the next one and the search
\* resumes after it, so the fences pair up in order of appearance and a
\* last fence left alone opens nothing.
ScanCodeBlocks(text) ==
  [k \in 1..(Len(FenceIndexes(text)) \div 2) |->
     BlockAt(text, FenceIndexes(text)[2 * k - 1], FenceIndexes(text)[2 * k])]

\* the fenced blocks of a content in order of appearance
RECURSIVE CodeBlocks(_)
CodeBlocks(content) ==
  IF content = <<>> THEN <<>>
  ELSE (IF Head(content).fenced THEN <<Head(content)>> ELSE <<>>)
         \o CodeBlocks(Tail(content))

\* lines 755-763: blocks with an explicit language tag
RECURSIVE TaggedPassUntrimmed(_, _)
TaggedPassUntrimmed(blocks, acc) ==
  IF blocks = <<>> THEN acc
  ELSE LET b == Head(blocks)
           next == IF b.lang = "html" /\ acc.html = <<>>
                   THEN [acc EXCEPT !.html = b.body]
                   ELSE IF b.lang = "css" /\ acc.css = <<>>
                        THEN [acc EXCEPT !.css = b.body]
                        ELSE acc
       IN TaggedPassUntrimmed(Tail(blocks), next)

RECURSIVE TaggedPassLastWins(_, _)
TaggedPassLastWins(blocks, acc) ==
  IF blocks = <<>> THEN acc
  ELSE LET b == Head(blocks)
           next == IF b.lang = "html"
                   THEN [acc EXCEPT !.html = TrimChunks(b.body)]
                   ELSE IF b.lang = "css"
                        THEN [acc EXCEPT !.css = TrimChunks(b.body)]
                        ELSE acc
       IN TaggedPassLastWins(Tail(blocks), next)

RECURSIVE TaggedPass(_, _)
TaggedPass(blocks, acc) ==
  IF blocks = <<>> THEN acc
  ELSE LET b == Head(blocks)
           next == IF b.lang = "html" /\ acc.html = <<>>
                   THEN [acc EXCEPT !.html = TrimChunks(b.body)]
                   ELSE IF b.lang = "css" /\ acc.css = <<>>
                        THEN [acc EXCEPT !.css = TrimChunks(b.body)]
                        ELSE acc
       IN TaggedPass(Tail(blocks), next)

HtmlMarkers == {"doctype", "html_open", "head", "body"}

\* lines 767-794: blocks without a language tag, identified by content
RECURSIVE SniffPassCssOnly(_, _)
SniffPassCssOnly(blocks, acc) ==
  IF blocks = <<>> THEN acc
  ELSE LET b == Head(blocks)
           trimmedContent == TrimChunks(b.body)
           next == IF b.lang # "" THEN acc
                   ELSE IF acc.css = <<>> /\ HasKind(trimmedContent, {"rule"})
                        THEN [acc EXCEPT !.css = trimmedContent]
                        ELSE acc
       IN SniffPassCssOnly(Tail(blocks), next)

RECURSIVE SniffPass(_, _)
SniffPass(blocks, acc) ==
  IF blocks = <<>> THEN acc
  ELSE LET b == Head(blocks)
           trimmedContent == TrimChunks(b.body)
           next == IF b.lang # "" THEN acc
                   ELSE IF acc.html = <<>> /\ HasKind(trimmedContent, HtmlMarkers)
                        THEN [acc EXCEPT !.html = trimmedContent]
                        ELSE IF acc.css = <<>> /\ HasKind(trimmedContent, {"rule"})
                             THEN [acc EXCEPT !.css = trimmedContent]
                             ELSE acc
       IN SniffPass(Tail(blocks), next)

\* lines 798-814: a raw HTML document anywhere in the text, from the first
\* <!DOCTYPE html> (else the first <html>) to the next </html>
RawDocument(text) ==
  LET d == FirstKind(text, {"doctype"}, 1)
      dEnd == IF d = 0 THEN 0 ELSE FirstKind(text, {"html_close"}, d + 1)
      h == FirstKind(text, {"html_open"}, 1)
      hEnd == IF h = 0 THEN 0 ELSE FirstKind(text, {"html_close"}, h + 1)
  IN IF dEnd > 0 THEN SubSeq(text, d, dEnd)
     ELSE IF hEnd > 0 THEN SubSeq(text, h, hEnd)
          ELSE <<>>

\* lines 818-824: the trimmed contents of the <style> elements, in order
RECURSIVE ExtractedStyles(_)
ExtractedStyles(html) ==
  LET o == FirstKind(html, {"style_open"}, 1)
      c == IF o = 0 THEN 0 ELSE FirstKind(html, {"style_close"}, o + 1)
  IN IF c = 0 THEN <<>>
     ELSE (IF c > o + 1 THEN <<TrimChunks(SubSeq(html, o + 1, c - 1))>> ELSE <<>>)
            \o ExtractedStyles(SubSeq(html, c + 1, Len(html)))

\* Array.prototype.join('\n\n')
RECURSIVE JoinBlankLine(_)
JoinBlankLine(parts) ==
  IF parts = <<>> THEN <<>>
  ELSE IF Len(parts) = 1 THEN parts[1]
       ELSE parts[1] \o <<Ws, Ws>> \o JoinBlankLine(Tail(parts))

\* lines 739-795: the slots as the fenced blocks fill them
\* line 766: the content pass runs only while a slot is still empty
ContentPass(codeBlocks, slots) ==
  IF slots.html = <<>> \/ slots.css = <<>> THEN SniffPass(codeBlocks, slots) ELSE slots

BlockSlots(content) ==
  ContentPass(ScanCodeBlocks(Flatten(content)),
              TaggedPass(ScanCodeBlocks(Flatten(content)), [html |-> <<>>, css |-> <<>>]))

\* lines 798-814: with no HTML from the blocks, the raw document of the text
RawDocumentFallback(slots, text) ==
  IF slots.html = <<>> THEN [slots EXCEPT !.html = TrimChunks(RawDocument(text))]
  ELSE slots

\* lines 817-828: with HTML and no CSS, the contents of the <style> elements
StyleFallback(slots) ==
  IF slots.css = <<>> /\ slots.html # <<>> /\ Len(ExtractedStyles(slots.html)) > 0
  THEN [slots EXCEPT !.css = JoinBlankLine(ExtractedStyles(slots.html))]
  ELSE slots

ParseGeneratedCodeRawFirst(content) ==
  IF content = <<>> THEN [html |-> <<>>, css |-> <<>>]
  ELSE LET p2 == BlockSlots(content)
           doc == TrimChunks(RawDocument(Flatten(content)))
           p3 == IF doc # <<>> THEN [p2 EXCEPT !.html = doc] ELSE p2
           styles == ExtractedStyles(p3.html)
       IN IF p3.css = <<>> /\ p3.html # <<>> /\ Len(styles) > 0
          THEN [p3 EXCEPT !.css = JoinBlankLine(styles)]
          ELSE p3

\* parseGeneratedCode(content) of geminiService.js -> {html, css}
ParseGeneratedCode(content) ==
  IF content = <<>> THEN [html |-> <<>>, css |-> <<>>]
  ELSE StyleFallback(RawDocumentFallback(BlockSlots(content), Flatten(content)))

\* the first fenced block tagged lang, <<>> when there is none
FirstTagged(blocks, lang) ==
  IF \E i \in 1..Len(blocks) : ToLowerCase(blocks[i].lang) = lang
  THEN LET i == CHOOSE k \in 1..Len(blocks) :
                  /\ ToLowerCase(blocks[k].lang) = lang
                  /\ \A j \in 1..(k - 1) : ToLowerCase(blocks[j].lang) # lang
       IN TrimChunks(blocks[i].body)
  ELSE <<>>

\* parseGeneratedCode(content) of the SambaNova service -> {html, css}
SambaParseGeneratedCode(content) ==
  LET blocks == CodeBlocks(content)
      html == FirstTagged(blocks, "html")
      css == FirstTagged(blocks, "css")
      text == Flatten(content)
      a == FirstKind(text, HtmlMarkers, 1)
      b == LastKind(text, {"html_close"})
  IN IF html = <<>> /\ css = <<>> /\ a > 0 /\ b > a
     THEN [html |-> SubSeq(text, a, b), css |-> css]
     ELSE [html |-> html, css |-> css]

\* The texts a provider may answer a generation request with.
GenContents ==
  { <<Block("html", <<Doctype, HtmlOpen, Txt(100), HtmlClose>>), Raw(<<Ws>>),
      Block("css", <<Rule(50)>>)>>,
    <<Block("html", <<Txt(40)>>), Block("css", <<Rule(60)>>)>>,
    <<Block("html", <<Doctype, Txt(100)>>), Block("css", <<Rule(49)>>)>>,
    <<Raw(<<Txt(30)>>)>>,
    <<Raw(<<FileMarker("App.tsx"), Ws, Txt(120), Ws, FileMarker("index.css"), Ws,
            Rule(60), Ws, EndMarker>>)>>,
    <<Raw(<<FileMarker("App.tsx"), Ws, Txt(120), Ws, EndMarker, Ws>>),
      Block("html", <<Doctype, Txt(100)>>), Block("css", <<Rule(50)>>)>>,
    <<>> }

GenResponses ==
  {[status |-> st, text |-> <<>>] : st \in {"429", "error", "network"}}
    \cup {[status |-> "ok", text |-> t] : t \in GenContents}

MinHtmlLength == 100
MinCssLength == 50

\* lines 575 and 580: both parts were extracted and are long enough
OutputCompleteOffByOne(parsedCode) ==
  /\ ~(parsedCode.html = <<>> \/ StrLen(parsedCode.html) <= MinHtmlLength)
  /\ ~(parsedCode.css = <<>> \/ StrLen(parsedCode.css) <= MinCssLength)

OutputComplete(parsedCode) ==
  /\ ~(parsedCode.html = <<>> \/ StrLen(parsedCode.html) < MinHtmlLength)
  /\ ~(parsedCode.css = <<>> \/ StrLen(parsedCode.css) < MinCssLength)

\* ------------------------------------------------------------ call state
\* Assets are {type, data}; data is a base64 data URI ("data"), some other
\* text such as a URL ("url"), or missing ("").
ImageAsset == [type |-> "image", data |-> "data"]
BareImageAsset == [type |-> "image", data |-> ""]
LinkAsset == [type |-> "link", data |-> "url"]

AssetLists ==
  { <<>>, <<LinkAsset>>, <<ImageAsset>>, <<BareImageAsset>>,
    <<LinkAsset, ImageAsset>> }

\* the asset lists tried on the entry points whose control flow ignores them
FewAssetLists == { <<>>, <<LinkAsset, ImageAsset>> }

\* ------------------------------------------------------ request parts
\* lines 294 and 485: imageAssets.slice(0, 5)
MaxInlineImages == 5

IsImage(a) == a.type = "image"

\* lines 294-306 and 485-497: one inline_data part for each of the images
\* whose data is a base64 data URI; a part records the place of its image
\* in imageAssets
RECURSIVE InlineParts(_, _)
InlineParts(images, i) ==
  IF i > Len(images) THEN <<>>
  ELSE (IF images[i].data = "data"
        THEN <<[kind |-> "inline_data", image |-> i]>>
        ELSE <<>>) \o InlineParts(images, i + 1)

\* lines 286-330 and 480-527: contentParts, the parts of the request body:
\* the images first, then the text prompt
ContentPartsEveryImage(assets) ==
  InlineParts(SelectSeq(assets, IsImage), 1) \o <<[kind |-> "text", image |-> 0]>>

ContentParts(assets) ==
  InlineParts(SubSeq(SelectSeq(assets, IsImage), 1,
                     Min(MaxInlineImages, Len(SelectSeq(assets, IsImage)))), 1)
    \o <<[kind |-> "text", image |-> 0]>>

\* ------------------------------------------------- design specifications
\* The design JSON handed to the vision pipeline: null, or {layout, colors,
\* effects, isDarkTheme}.
NoDesign ==
  [null |-> TRUE,
   layout |-> [type |-> "", sections |-> <<>>, columns |-> 0],
   colors |-> [background |-> "", primary |-> "", secondary |-> "", accent |-> "",
               text |-> ""],
   effects |-> <<>>, isDarkTheme |-> FALSE]

\* a design JSON as optimizePrompt hands it back to the application
OptimizerDesign ==
  [null |-> FALSE,
   layout |-> [type |-> "dashboard", sections |-> <<"sidebar", "content">>, columns |-> 2],
   colors |-> [background |-> "#ffffff", primary |-> "#ef4444", secondary |-> "#b91c1c",
               accent |-> "#fca5a5", text |-> "#111827"],
   effects |-> <<"shadows">>, isDarkTheme |-> FALSE]

\* part_006 lines 371-424, preprocessImage(imageDataUrl).  What the Space
\* extracted is {colors, layout}, either of which may be missing from its
\* answer; has_colors and has_layout tell which are there.
HfExtracted ==
  [success |-> TRUE, has_colors |-> TRUE, has_layout |-> FALSE,
   colors |-> [primary |-> "#10b981", secondary |-> "#047857", accent |-> "#6ee7b7",
               background |-> "#f9fafb", text |-> "#111827", is_dark_theme |-> FALSE],
   layout |-> [type |-> "", sections |-> <<>>, estimated_columns |-> 0]]

\* part_006 lines 397-422: any failure is caught and answered with the
\* default palette and layout
HfFailed ==
  [success |-> FALSE, has_colors |-> TRUE, has_layout |-> TRUE,
   colors |-> [primary |-> "#3b82f6", secondary |-> "#1e40af", accent |-> "#60a5fa",
               background |-> "#1e1e2e", text |-> "#ffffff", is_dark_theme |-> TRUE],
   layout |-> [type |-> "landing", sections |-> <<"navbar", "hero", "features", "footer">>,
               estimated_columns |-> 3]]

HfResults == {HfExtracted, HfFailed}

\* part_006 lines 426-449, buildDesignJSON(hfData) for a non-null hfData
BuildDesignJSONOwnSections(hfData) ==
  [null |-> FALSE,
   layout |-> [type |-> "landing", sections |-> <<"header", "hero", "features", "footer">>,
               columns |-> 3],
   colors |-> [background |-> hfData.colors.background, primary |-> hfData.colors.primary,
               secondary |-> hfData.colors.secondary, accent |-> hfData.colors.accent,
               text |-> hfData.colors.text],
   effects |-> <<"glassmorphism", "gradient", "shadows">>, isDarkTheme |-> TRUE]

BuildDesignJSON(hfData) ==
  LET dark == hfData.has_colors /\ hfData.colors.is_dark_theme
  IN [null |-> FALSE,
      layout |->
        [type |-> IF hfData.has_layout THEN hfData.layout.type ELSE "landing",
         sections |-> IF hfData.has_layout THEN hfData.layout.sections
                      ELSE <<"header", "hero", "features", "footer">>,
         columns |-> IF hfData.has_layout THEN hfData.layout.estimated_columns ELSE 3],
      colors |->
        [background |-> IF hfData.has_colors THEN hfData.colors.background ELSE "#1e1e2e",
         primary |-> IF hfData.has_colors THEN hfData.colors.primary ELSE "#3b82f6",
         secondary |-> IF hfData.has_colors THEN hfData.colors.secondary ELSE "#1e40af",
         accent |-> IF hfData.has_colors THEN hfData.colors.accent ELSE "#60a5fa",
         text |-> IF hfData.has_colors THEN hfData.colors.text ELSE "#ffffff"],
      effects |-> IF dark THEN <<"glassmorphism", "gradient", "shadows">>
                  ELSE <<"shadows", "subtle-gradient">>,
      isDarkTheme |-> IF hfData.has_colors THEN hfData.colors.is_dark_theme ELSE TRUE]

NoResult ==
  [success |-> FALSE, error |-> "", optimizedPrompt |-> <<>>, designJSON |-> JNull,
   rawOutput |-> <<>>, html |-> <<>>, css |-> <<>>, rawContent |-> <<>>,
   files |-> <<>>, pipeline |-> "", framework |-> "", message |-> "",
   hasCodeChanges |-> FALSE]

NoCall ==
  [fn |-> "none", pc |-> "idle", assets |-> <<>>, framework |-> "",
   apiKey |-> NULL, currentKey |-> NULL, excludeKey |-> NULL,
   attempt |-> 0, maxAttempts |-> 0, calls |-> 0, used |-> <<>>,
   lastStatus |-> "", lastError |-> "", lastDisplayText |-> <<>>,
   lastRawOutput |-> <<>>, via |-> "direct", design |-> NoDesign,
   hf |-> "none", invoked |-> {}, seen |-> {}, gotText |-> FALSE,
   parts |-> <<>>, result |-> NoResult]

\* no entry point is executing
Idle == call.pc = "idle"

\* the call has settled: its promise is fulfilled or rejected
Settled == call.pc \in {"returned", "thrown"}

Returned(c, res) == [c EXCEPT !.pc = "returned", !.result = res]

\* an exception leaves the entry point: the caller's promise rejects
Thrown(c, msg) == [c EXCEPT !.pc = "thrown", !.result = [NoResult EXCEPT !.error = msg]]

\* part_001 line 128: pendingCodeChanges is null
NoPending == [present |-> FALSE, html |-> "", css |-> ""]

\* part_001 lines 90-128: the state of CodeContext at mount, no call pending
NoApp ==
  [prompt |-> "", optimizedPrompt |-> "", isOptimizing |-> FALSE,
   isGenerating |-> FALSE, chatHistory |-> <<>>, isHistoryDrawerOpen |-> FALSE,
   optimizeInFlight |-> FALSE, generateInFlight |-> FALSE,
   sent |-> [prompt |-> "", optimizedPrompt |-> ""],
   startedDuringOptimize |-> FALSE, aiError |-> "",
   files |-> [html |-> "", css |-> ""], chatbotMessages |-> <<>>,
   chatbotLoading |-> FALSE, pendingCodeChanges |-> NoPending,
   chatbotInFlight |-> FALSE]

\* the two concurrent callers, neither of which has called yet
Procs == {1, 2}
NoConcCall ==
  [fn |-> "none", pc |-> "idle", apiKey |-> NULL, currentKey |-> NULL,
   attempt |-> 0, maxAttempts |-> 0, calls |-> 0]
NoConc == [p \in Procs |-> NoConcCall]

\* no text has been parsed
NoParse == [content |-> <<>>, parsed |-> FALSE, html |-> <<>>, css |-> <<>>]

NoSel == [op |-> "none", pool |-> "none", excl |-> NULL, ret |-> NULL, before |-> {}]
NoCov == [gemini |-> <<>>, chatbot |-> <<>>, gstart |-> {}, cstart |-> {}]

\* The state after module load: the keys are read from configuration and no
\* key has failed.  Any number of Gemini keys up to the bound may be
\* configured, and the SambaNova key may be missing.  The Gemini services and
\* the router never read the chatbot pool, which is left empty here.
Init ==
  /\ GEMINI_API_KEYS \in {KeySeq(n) : n \in 0..MaxKeys}
  /\ CHATBOT_API_KEYS = <<>>
  /\ SAMBANOVA_API_KEY \in BOOLEAN
  /\ failedKeys = {}
  /\ failedChatbotKeys = {}
  /\ sel = NoSel
  /\ app = NoApp
  /\ parser = NoParse
  /\ conc = NoConc
  /\ cov = NoCov
  /\ call = NoCall

\* The two pools on their own, with any number of keys configured.
PoolInit ==
  /\ GEMINI_API_KEYS \in {KeySeq(n) : n \in 0..MaxKeys}
  /\ CHATBOT_API_KEYS \in {KeySeq(n) : n \in 0..MaxChatKeys}
  /\ SAMBANOVA_API_KEY = TRUE
  /\ failedKeys = {}
  /\ failedChatbotKeys = {}
  /\ sel = NoSel
  /\ app = NoApp
  /\ parser = NoParse
  /\ conc = NoConc
  /\ cov = NoCov
  /\ call = NoCall

\* -------------------------------------------- pool operations on their own
\* A caller selects a Gemini key, optionally excluding one.
Select(excludeKey) ==
  /\ \E r \in GetRandomKey(GEMINI_API_KEYS, failedKeys, excludeKey) :
       /\ failedKeys' = r.failed
       /\ sel' = [op |-> "select", pool |-> "gemini", excl |-> excludeKey,
                  ret |-> r.key, before |-> failedKeys]
  /\ UNCHANGED <<GEMINI_API_KEYS, CHATBOT_API_KEYS, SAMBANOVA_API_KEY, failedChatbotKeys, cov, call, app, parser, conc>>

\* A key that was handed out is marked failed.
MarkFailed(key) ==
  /\ failedKeys' = MarkKeyFailed(failedKeys, key)
  /\ sel' = [op |-> "mark", pool |-> "gemini", excl |-> NULL, ret |-> key,
             before |-> failedKeys]
  /\ UNCHANGED <<GEMINI_API_KEYS, CHATBOT_API_KEYS, SAMBANOVA_API_KEY, failedChatbotKeys, cov, call, app, parser, conc>>

Reset ==
  /\ failedKeys' = ResetFailedKeys(failedKeys)
  /\ sel' = [op |-> "reset", pool |-> "gemini", excl |-> NULL, ret |-> NULL,
             before |-> failedKeys]
  /\ UNCHANGED <<GEMINI_API_KEYS, CHATBOT_API_KEYS, SAMBANOVA_API_KEY, failedChatbotKeys, cov, call, app, parser, conc>>

ChatSelect ==
  /\ \E r \in ChatGetRandomKey(CHATBOT_API_KEYS, failedChatbotKeys) :
       /\ failedChatbotKeys' = r.failed
       /\ sel' = [op |-> "select", pool |-> "chatbot", excl |-> NULL,
                  ret |-> r.key, before |-> failedChatbotKeys]
  /\ UNCHANGED <<GEMINI_API_KEYS, CHATBOT_API_KEYS, SAMBANOVA_API_KEY, failedKeys, cov, call, app, parser, conc>>

ChatMarkFailed(key) ==
  /\ failedChatbotKeys' = MarkKeyFailed(failedChatbotKeys, key)
  /\ sel' = [op |-> "mark", pool |-> "chatbot", excl |-> NULL, ret |-> key,
             before |-> failedChatbotKeys]
  /\ UNCHANGED <<GEMINI_API_KEYS, CHATBOT_API_KEYS, SAMBANOVA_API_KEY, failedKeys, cov, call, app, parser, conc>>

\* The excluded key is the caller's: any key id, configured or not, or none.
PoolSelect == \E x \in KeyIds \cup {NULL} : Select(x)
PoolMarkFailed == \E k \in Range(GEMINI_API_KEYS) : MarkFailed(k)
PoolChatMarkFailed == \E k \in Range(CHATBOT_API_KEYS) : ChatMarkFailed(k)

PoolNext == PoolSelect \/ PoolMarkFailed \/ Reset \/ ChatSelect \/ PoolChatMarkFailed

PoolSpec == PoolInit /\ [][PoolNext]_vars

\* ------------------------------------------------ select-then-mark-failed
\* A run that starts from any failed set and in which every selection (no
\* exclusion) is followed at once by markKeyFailed of the key returned.
CovInit ==
  /\ \/ /\ GEMINI_API_KEYS \in {KeySeq(n) : n \in 1..MaxKeys}
        /\ CHATBOT_API_KEYS = <<>>
     \/ /\ GEMINI_API_KEYS = <<>>
        /\ CHATBOT_API_KEYS \in {KeySeq(n) : n \in 1..MaxChatKeys}
  /\ SAMBANOVA_API_KEY = TRUE
  /\ failedKeys \in SUBSET Range(GEMINI_API_KEYS)
  /\ failedChatbotKeys \in SUBSET Range(CHATBOT_API_KEYS)
  /\ sel = NoSel
  /\ app = NoApp
  /\ parser = NoParse
  /\ conc = NoConc
  /\ cov = [gemini |-> <<>>, chatbot |-> <<>>,
            gstart |-> failedKeys, cstart |-> failedChatbotKeys]
  /\ call = NoCall

CovSelectMark ==
  /\ Len(GEMINI_API_KEYS) > 0
  /\ Len(cov.gemini) < 2 * Len(GEMINI_API_KEYS)
  /\ \E r \in GetRandomKey(GEMINI_API_KEYS, failedKeys, NULL) :
       /\ failedKeys' = MarkKeyFailed(r.failed, r.key)
       /\ cov' = [cov EXCEPT !.gemini = Append(@, r.key)]
  /\ UNCHANGED <<GEMINI_API_KEYS, CHATBOT_API_KEYS, SAMBANOVA_API_KEY,
                 failedChatbotKeys, sel, call, app, parser, conc>>

CovChatSelectMark ==
  /\ Len(CHATBOT_API_KEYS) > 0
  /\ Len(cov.chatbot) < 2 * Len(CHATBOT_API_KEYS)
  /\ \E r \in ChatGetRandomKey(CHATBOT_API_KEYS, failedChatbotKeys) :
       /\ failedChatbotKeys' = MarkKeyFailed(r.failed, r.key)
       /\ cov' = [cov EXCEPT !.chatbot = Append(@, r.key)]
  /\ UNCHANGED <<GEMINI_API_KEYS, CHATBOT_API_KEYS, SAMBANOVA_API_KEY,
                 failedKeys, sel, call, app, parser, conc>>

CovNext == CovSelectMark \/ CovChatSelectMark

CoverageSpec == CovInit /\ [][CovNext]_vars

\* ------------------------------------------------------- optimizePrompt
\* lines 410-419: the result once the loop is left without success
OptExhausted(c) ==
  Returned(c, [NoResult EXCEPT
                 !.success = FALSE,
                 !.error = "Failed to extract design JSON after multiple attempts. Please try again.",
                 !.optimizedPrompt = c.lastDisplayText,
                 !.designJSON = JNull,
                 !.rawOutput = c.lastRawOutput])

\* lines 338-359: the head of iteration c.attempt, up to the await of fetch.
\* Yields the possible [call, failed] pairs: the request is in flight, or the
\* loop is over and the call has returned.
OptIterate(c, failed) ==
  IF ~OptLoopRuns(c.attempt) THEN {[call |-> OptExhausted(c), failed |-> failed]}
  ELSE LET picks == IF c.attempt = 0
                    THEN {[key |-> c.apiKey, failed |-> failed]}
                    ELSE GetRandomKey(GEMINI_API_KEYS, failed, c.apiKey)
       IN { IF r.key = NULL
            THEN [call |-> OptExhausted(c), failed |-> r.failed]
            ELSE [call |-> [c EXCEPT !.pc = "await", !.currentKey = r.key,
                                     !.calls = @ + 1, !.used = Append(@, r.key),
                                     !.seen = IF c.attempt = 0 THEN @ ELSE failed],
                  failed |-> r.failed] : r \in picks }

\* lines 282 and 474: if (!apiKey)
NoKeyNever(apiKey) == FALSE

NoKey(apiKey) == apiKey = NULL

\* lines 279-359: optimizePrompt(userPrompt, assets) up to its first await
OptimizePromptStart(assets) ==
  /\ Idle
  /\ \E r \in GetRandomKey(GEMINI_API_KEYS, failedKeys, NULL) :
       IF NoKey(r.key)
       THEN /\ call' = Thrown([NoCall EXCEPT !.fn = "optimizePrompt", !.assets = assets],
                              "No Gemini API keys configured. Please set VITE_GEMINI_API_KEYS in your .env file.")
            /\ failedKeys' = r.failed
       ELSE \E o \in OptIterate([NoCall EXCEPT !.fn = "optimizePrompt", !.assets = assets,
                                               !.parts = ContentParts(assets),
                                               !.apiKey = r.key], r.failed) :
              /\ call' = o.call
              /\ failedKeys' = o.failed
  /\ UNCHANGED <<GEMINI_API_KEYS, CHATBOT_API_KEYS, SAMBANOVA_API_KEY,
                 failedChatbotKeys, sel, cov, app, parser, conc>>

\* lines 361-408: the provider call settles; the rest of the iteration runs,
\* then the next iteration up to its fetch, or the function returns
OptimizePromptResponse(resp) ==
  /\ call.fn = "optimizePrompt" /\ call.pc = "await"
  /\ LET c0 == [call EXCEPT !.lastStatus = resp.status]
         parsed == ParseOptimizationOutput(resp.text)
         c1 == [c0 EXCEPT !.lastRawOutput = resp.text,
                          !.lastDisplayText = parsed.displayText,
                          !.gotText = @ \/ Range(parsed.displayText) \cap {"prose"} # {}]
     IN CASE resp.status = "429" ->
               \E o \in OptIterate([c0 EXCEPT !.attempt = @ + 1],
                                   MarkKeyFailed(failedKeys, call.currentKey)) :
                 call' = o.call /\ failedKeys' = o.failed
          [] resp.status = "error" ->
               \E o \in OptIterate([c0 EXCEPT !.attempt = @ + 1,
                                              !.lastError = "API request failed"],
                                   failedKeys) :
                 call' = o.call /\ failedKeys' = o.failed
          [] resp.status = "network" ->
               \E o \in OptIterate([c0 EXCEPT !.attempt = @ + 1,
                                              !.lastError = "Failed to fetch"],
                                   failedKeys) :
                 call' = o.call /\ failedKeys' = o.failed
          [] resp.status = "ok" ->
               IF DesignValid(parsed.designJSON)
               THEN /\ call' = Returned(c1, [NoResult EXCEPT
                                               !.success = TRUE,
                                               !.optimizedPrompt = parsed.displayText,
                                               !.designJSON = parsed.designJSON,
                                               !.rawOutput = resp.text])
                    /\ failedKeys' = failedKeys
               ELSE \E o \in OptIterate([c1 EXCEPT !.attempt = @ + 1], failedKeys) :
                      call' = o.call /\ failedKeys' = o.failed
  /\ UNCHANGED <<GEMINI_API_KEYS, CHATBOT_API_KEYS, SAMBANOVA_API_KEY,
                 failedChatbotKeys, sel, cov, app, parser, conc>>

\* ------------------------------------------------ multi-file extraction
\* parseReactOutput(rawContent) of the SambaNova service: every
\* ---FILE: <path>--- marker opens a file that runs to the next marker or
\* to ---END---; the files are emitted in source order.
RECURSIVE ParseReactOutput(_)
ParseReactOutput(text) ==
  LET i == FirstKind(text, {"file"}, 1)
      j == IF i = 0 THEN 0 ELSE FirstKind(text, {"file", "end"}, i + 1)
      stop == IF j = 0 THEN Len(text) + 1 ELSE j
  IN IF i = 0 THEN <<>>
     ELSE <<[name |-> text[i].path, content |-> TrimChunks(SubSeq(text, i + 1, stop - 1))]>>
            \o ParseReactOutput(SubSeq(text, stop, Len(text)))

\* ------------------------------------------- generateWebPageWithImages
\* lines 602-609: the result once the loop is left without success
GenExhausted(c) ==
  [NoResult EXCEPT !.success = FALSE,
                   !.error = IF c.lastError # "" THEN c.lastError
                             ELSE "All API keys exhausted"]

\* line 1162: the recovered html without <!DOCTYPE ...>, <html ...>,
\* </html>, <body ...> (the chunks carry no </head> and no </body>, so the
\* <head>...</head> alternative never matches)
RECURSIVE StripDocumentTags(_)
StripDocumentTags(html) ==
  IF html = <<>> THEN <<>>
  ELSE (IF Head(html).t \in {"doctype", "html_open", "html_close", "body"}
        THEN <<>> ELSE <<Head(html)>>)
         \o StripDocumentTags(Tail(html))

\* lines 1153-1179: the two files synthesized from a flat HTML/CSS pair; the
\* component text around the markup is a chunk of kind "tsx" (the
\* indentation added to each line is not counted), the stylesheet falls
\* back to the comment '/* Add your styles here */'
FallbackFiles(parsed) ==
  <<[name |-> "App.tsx",
     content |-> <<[t |-> "tsx", n |-> 83]>> \o StripDocumentTags(parsed.html)
                   \o <<[t |-> "tsx", n |-> 37]>>],
    [name |-> "index.css",
     content |-> IF parsed.css # <<>> THEN parsed.css
                 ELSE <<[t |-> "comment", n |-> 26]>>]>>

\* lines 1116-1199: generateReactWithGemini after its Gemini call
ReactFromGeminiNoFallback(res) ==
  IF res.success /\ Len(ParseReactOutput(Flatten(res.rawContent))) > 0
  THEN [NoResult EXCEPT !.success = TRUE,
                        !.files = ParseReactOutput(Flatten(res.rawContent)),
                        !.rawContent = res.rawContent,
                        !.pipeline = "gemini", !.framework = "react"]
  ELSE [NoResult EXCEPT !.success = FALSE, !.error = "Failed to parse generated code",
                        !.pipeline = "gemini", !.framework = "react"]

ReactFromGeminiNoFilesCheck(res) ==
  IF res.success
  THEN [NoResult EXCEPT !.success = TRUE,
                        !.files = ParseReactOutput(Flatten(res.rawContent)),
                        !.rawContent = res.rawContent,
                        !.pipeline = "gemini", !.framework = "react"]
  ELSE [NoResult EXCEPT !.success = FALSE, !.error = res.error,
                        !.pipeline = "gemini", !.framework = "react"]

ReactFromGemini(res) ==
  IF ~res.success
  THEN [NoResult EXCEPT !.success = FALSE, !.error = res.error,
                        !.pipeline = "gemini", !.framework = "react"]
  ELSE LET files == ParseReactOutput(Flatten(res.rawContent))
           parsed == ParseGeneratedCode(res.rawContent)
       IN IF Len(files) > 0
          THEN [NoResult EXCEPT !.success = TRUE, !.files = files,
                                !.rawContent = res.rawContent,
                                !.pipeline = "gemini", !.framework = "react"]
          ELSE IF parsed.html # <<>> \/ parsed.css # <<>>
               THEN [NoResult EXCEPT
                       !.success = TRUE,
                       !.files = FallbackFiles(parsed),
                       !.rawContent = res.rawContent,
                       !.pipeline = "gemini", !.framework = "react"]
               ELSE [NoResult EXCEPT !.success = FALSE,
                                     !.error = "Failed to parse generated code",
                                     !.pipeline = "gemini", !.framework = "react"]

\* lines 1056-1062: generateWithImage tags the flat result
TagGeminiAsSambaNova(res) ==
  [res EXCEPT !.pipeline = "sambanova", !.framework = "html"]

TagGemini(res) == [res EXCEPT !.pipeline = "gemini", !.framework = "html"]

\* lines 1007-1019: generateTextOnly tags the result
TagSambaNova(res, framework) ==
  [res EXCEPT !.pipeline = "sambanova", !.framework = framework]

\* generateWebPageWithImages returns res: to its caller, or into the router
GenReturn(c, res) ==
  IF c.via = "router"
  THEN Returned(c, IF c.framework = "react" THEN ReactFromGemini(res) ELSE TagGemini(res))
  ELSE Returned(c, res)

\* line 531
GenMaxAttemptsAlwaysThree(keys) == 3

GenMaxAttempts(keys) == Min(3, Len(keys))

\* lines 533-553: the head of iteration c.attempt, up to the await of fetch
GenIterateMarksKey(c, failed) ==
  IF ~(c.attempt < c.maxAttempts)
  THEN {[call |-> GenReturn(c, GenExhausted(c)),
         failed |-> MarkKeyFailed(failed, c.currentKey)]}
  ELSE LET picks == IF c.attempt = 0
                    THEN {[key |-> c.apiKey, failed |-> failed]}
                    ELSE {[key |-> r.key, failed |-> MarkKeyFailed(r.failed, c.currentKey)] :
                            r \in GetRandomKey(GEMINI_API_KEYS, failed, c.apiKey)}
       IN { [call |-> [c EXCEPT !.pc = "await", !.currentKey = r.key,
                                !.calls = @ + 1, !.used = Append(@, r.key),
                                !.seen = IF c.attempt = 0 THEN @ ELSE failed],
             failed |-> r.failed] : r \in picks }

GenIterate(c, failed) ==
  IF ~(c.attempt < c.maxAttempts)
  THEN {[call |-> GenReturn(c, GenExhausted(c)), failed |-> failed]}
  ELSE LET picks == IF c.attempt = 0
                    THEN {[key |-> c.apiKey, failed |-> failed]}
                    ELSE GetRandomKey(GEMINI_API_KEYS, failed, c.apiKey)
       IN { IF r.key = NULL
            THEN [call |-> GenReturn(c, GenExhausted(c)), failed |-> r.failed]
            ELSE [call |-> [c EXCEPT !.pc = "await", !.currentKey = r.key,
                                     !.calls = @ + 1, !.used = Append(@, r.key),
                                     !.seen = IF c.attempt = 0 THEN @ ELSE failed],
                  failed |-> r.failed] : r \in picks }

\* lines 471-553: generateWebPageWithImages(prompt, assets, designJSON,
\* excludeKey) up to its first await; c carries the arguments
GenBegin(c, failed) ==
  UNION { IF NoKey(r.key)
          THEN {[call |-> Thrown([c EXCEPT !.fn = "generateWebPageWithImages",
                                           !.invoked = @ \cup {"gemini"}],
                                 "No Gemini API keys configured. Please set VITE_GEMINI_API_KEYS in your .env file."),
                 failed |-> r.failed]}
          ELSE GenIterate([c EXCEPT !.fn = "generateWebPageWithImages",
                                    !.invoked = @ \cup {"gemini"},
                                    !.apiKey = r.key,
                                    !.parts = ContentParts(c.assets),
                                    !.maxAttempts = GenMaxAttempts(GEMINI_API_KEYS)],
                          r.failed)
          : r \in GetRandomKey(GEMINI_API_KEYS, failed, c.excludeKey) }

GenerateWebPageWithImagesStart(assets, design, excludeKey) ==
  /\ Idle
  /\ \E o \in GenBegin([NoCall EXCEPT !.assets = assets, !.design = design,
                                      !.excludeKey = excludeKey], failedKeys) :
       call' = o.call /\ failedKeys' = o.failed
  /\ UNCHANGED <<GEMINI_API_KEYS, CHATBOT_API_KEYS, SAMBANOVA_API_KEY,
                 failedChatbotKeys, sel, cov, app, parser, conc>>

\* lines 555-600: the provider call settles
GenerateWebPageWithImagesResponse(resp) ==
  /\ call.fn = "generateWebPageWithImages" /\ call.pc = "await"
  /\ LET c0 == [call EXCEPT !.lastStatus = resp.status,
                             !.lastRawOutput = IF resp.status = "ok" THEN resp.text ELSE @]
         parsedCode == ParseGeneratedCode(resp.text)
     IN CASE resp.status = "429" ->
               \E o \in GenIterate([c0 EXCEPT !.attempt = @ + 1],
                                   MarkKeyFailed(failedKeys, call.currentKey)) :
                 call' = o.call /\ failedKeys' = o.failed
          [] resp.status = "error" ->
               \E o \in GenIterate([c0 EXCEPT !.attempt = @ + 1,
                                              !.lastError = "API request failed"],
                                   failedKeys) :
                 call' = o.call /\ failedKeys' = o.failed
          [] resp.status = "network" ->
               \E o \in GenIterate([c0 EXCEPT !.attempt = @ + 1,
                                              !.lastError = "Failed to fetch"],
                                   failedKeys) :
                 call' = o.call /\ failedKeys' = o.failed
          [] resp.status = "ok" ->
               IF OutputComplete(parsedCode)
               THEN /\ call' = GenReturn(c0, [NoResult EXCEPT
                                                !.success = TRUE,
                                                !.html = parsedCode.html,
                                                !.css = parsedCode.css,
                                                !.rawContent = resp.text])
                    /\ failedKeys' = failedKeys
               ELSE \E o \in GenIterate([c0 EXCEPT !.attempt = @ + 1], failedKeys) :
                      call' = o.call /\ failedKeys' = o.failed
  /\ UNCHANGED <<GEMINI_API_KEYS, CHATBOT_API_KEYS, SAMBANOVA_API_KEY,
                 failedChatbotKeys, sel, cov, app, parser, conc>>

\* ------------------------------------------ generateWebPage (SambaNova)
\* part_007 lines 212-253 with callSambaNova (lines 90-118): any failure of
\* the call is caught and reported; a 2xx answer is parsed and reported as
\* success whatever was recovered
GenerateWebPageResult(resp) ==
  IF resp.status = "ok"
  THEN [NoResult EXCEPT !.success = TRUE,
                        !.html = SambaParseGeneratedCode(resp.text).html,
                        !.css = SambaParseGeneratedCode(resp.text).css,
                        !.rawContent = resp.text]
  ELSE [NoResult EXCEPT !.success = FALSE,
                        !.error = IF resp.status = "network" THEN "Failed to fetch"
                                  ELSE "API request failed"]

\* generateReactApp(prompt) of the SambaNova service
GenerateReactAppResult(resp) ==
  IF resp.status = "ok"
  THEN [NoResult EXCEPT !.success = TRUE,
                        !.files = ParseReactOutput(Flatten(resp.text)),
                        !.rawContent = resp.text]
  ELSE [NoResult EXCEPT !.success = FALSE,
                        !.error = IF resp.status = "network" THEN "Failed to fetch"
                                  ELSE "API request failed"]

SambaNotConfigured ==
  [NoResult EXCEPT !.success = FALSE,
                   !.error = "SambaNova API key not configured. Please set VITE_SAMBANOVA_API_KEY in your environment."]

\* ------------------------------------------------ generateCode (router)
\* line 979
HasImages(assets) == \E i \in 1..Len(assets) : assets[i].type = "image"

\* line 1034: assets.find(a => a.type === 'image'), as [found, asset]
FirstImage(assets) ==
  IF HasImages(assets)
  THEN assets[CHOOSE i \in 1..Len(assets) :
                assets[i].type = "image"
                  /\ \A j \in 1..(i - 1) : assets[j].type # "image"]
  ELSE [type |-> "none", data |-> ""]

\* lines 978-1049: generateCode(prompt, assets, framework) up to its first
\* await: the fetch of the text pipeline, the preprocessor of the image
\* pipeline, or (image without data) the fetch of the vision pipeline
GenerateCodeStart(assets, framework) ==
  /\ Idle
  /\ LET c == [NoCall EXCEPT !.fn = "generateCode", !.via = "router",
                             !.assets = assets, !.framework = framework]
     IN IF HasImages(assets)
        THEN IF FirstImage(assets).data # ""
             THEN /\ call' = [c EXCEPT !.pc = "await_hf"]
                  /\ failedKeys' = failedKeys
             ELSE \E o \in GenBegin(c, failedKeys) :
                    call' = o.call /\ failedKeys' = o.failed
        ELSE /\ failedKeys' = failedKeys
             /\ IF SAMBANOVA_API_KEY
                THEN call' = [c EXCEPT !.pc = "await_samba",
                                       !.invoked = @ \cup {"sambanova"},
                                       !.calls = @ + 1]
                ELSE call' = Returned([c EXCEPT !.invoked = @ \cup {"sambanova"}],
                                      TagSambaNova(SambaNotConfigured, framework))
  /\ UNCHANGED <<GEMINI_API_KEYS, CHATBOT_API_KEYS, SAMBANOVA_API_KEY,
                 failedChatbotKeys, sel, cov, app, parser, conc>>

\* lines 1039-1056: preprocessImage settles (it never rejects: on failure it
\* resolves with its default palette and layout), then the vision pipeline
\* starts
PreprocessSettles(hfResult) ==
  /\ call.fn = "generateCode" /\ call.pc = "await_hf"
  /\ \E o \in GenBegin([call EXCEPT !.design = BuildDesignJSON(hfResult),
                                     !.hf = IF hfResult.success THEN "ok" ELSE "failed"],
                        failedKeys) :
       call' = o.call /\ failedKeys' = o.failed
  /\ UNCHANGED <<GEMINI_API_KEYS, CHATBOT_API_KEYS, SAMBANOVA_API_KEY,
                 failedChatbotKeys, sel, cov, app, parser, conc>>

\* lines 1002-1020: the text pipeline's provider call settles
SambaNovaResponse(resp) ==
  /\ call.fn = "generateCode" /\ call.pc = "await_samba"
  /\ call' = Returned([call EXCEPT !.lastStatus = resp.status],
                      TagSambaNova(IF call.framework = "react"
                                   THEN GenerateReactAppResult(resp)
                                   ELSE GenerateWebPageResult(resp),
                                   call.framework))
  /\ UNCHANGED <<GEMINI_API_KEYS, CHATBOT_API_KEYS, SAMBANOVA_API_KEY, failedKeys,
                 failedChatbotKeys, sel, cov, app, parser, conc>>

\* ---------------------------------------------------- generateCodeStream
\* lines 619-622: the guard reads GEMINI_API_KEY, an identifier that no
\* statement of the module declares, so evaluating it raises a
\* ReferenceError and the promise rejects before anything else runs
GenerateCodeStreamCall ==
  /\ Idle
  /\ call' = Thrown([NoCall EXCEPT !.fn = "generateCodeStream"],
                    "GEMINI_API_KEY is not defined")
  /\ UNCHANGED <<GEMINI_API_KEYS, CHATBOT_API_KEYS, SAMBANOVA_API_KEY, failedKeys,
                 failedChatbotKeys, sel, cov, app, parser, conc>>

\* The caller has taken the outcome of the settled call; the call's locals
\* are gone and only the pools' failed sets remain.
CallerContinues ==
  /\ Settled
  /\ call' = NoCall
  /\ UNCHANGED <<GEMINI_API_KEYS, CHATBOT_API_KEYS, SAMBANOVA_API_KEY, failedKeys,
                 failedChatbotKeys, sel, cov, app, parser, conc>>

OptimizePromptCall == \E assets \in FewAssetLists : OptimizePromptStart(assets)
OptimizePromptSettle == \E resp \in OptResponses : OptimizePromptResponse(resp)

GenerateWebPageWithImagesCall ==
  \E assets \in FewAssetLists, design \in {NoDesign, OptimizerDesign}, x \in KeyIds \cup {NULL} :
    GenerateWebPageWithImagesStart(assets, design, x)
GenerateWebPageWithImagesSettle ==
  \E resp \in GenResponses : GenerateWebPageWithImagesResponse(resp)
GenerateCodeCall ==
  \E assets \in AssetLists, framework \in {"html", "react"} :
    GenerateCodeStart(assets, framework)
PreprocessSettle == \E hfResult \in HfResults : PreprocessSettles(hfResult)
SambaNovaSettle == \E resp \in GenResponses : SambaNovaResponse(resp)

Next ==
  \/ OptimizePromptCall \/ OptimizePromptSettle
  \/ GenerateWebPageWithImagesCall \/ GenerateWebPageWithImagesSettle
  \/ GenerateCodeCall \/ PreprocessSettle \/ SambaNovaSettle
  \/ GenerateCodeStreamCall
  \/ CallerContinues

Spec == Init /\ [][Next]_vars

\* ------------------------------------- the entry points and resetFailedKeys
\* lines 71-74: the exported resetFailedKeys() may be called at any time,
\* also while a provider call is awaited
ResetFailedKeysCall ==
  /\ failedKeys' = ResetFailedKeys(failedKeys)
  /\ UNCHANGED <<GEMINI_API_KEYS, CHATBOT_API_KEYS, SAMBANOVA_API_KEY,
                 failedChatbotKeys, sel, cov, call, app, parser, conc>>

ResetNext == Next \/ ResetFailedKeysCall

ResetSpec == Init /\ [][ResetNext]_vars

\* ------------------------------------- the requests of the vision provider
\* The lists of image assets up to the bound, with and without data.
ImageLists == UNION {[1..n -> {ImageAsset, BareImageAsset}] : n \in 0..MaxAssets}

\* The asset lists handed to the entry points: images only, or images with
\* a link after the first of them.
ManyAssetLists ==
  ImageLists \cup {<<l[1], LinkAsset>> \o Tail(l) :
                     l \in {m \in ImageLists : Len(m) \in 1..(MaxAssets - 1)}}

\* One key is configured: the parts of a request do not depend on the pool.
RequestInit ==
  /\ GEMINI_API_KEYS = KeySeq(1)
  /\ CHATBOT_API_KEYS = <<>>
  /\ SAMBANOVA_API_KEY = TRUE
  /\ failedKeys = {}
  /\ failedChatbotKeys = {}
  /\ sel = NoSel
  /\ app = NoApp
  /\ parser = NoParse
  /\ conc = NoConc
  /\ cov = NoCov
  /\ call = NoCall

RequestOptimizePrompt == \E assets \in ManyAssetLists : OptimizePromptStart(assets)
RequestGenerateWebPage ==
  \E assets \in ManyAssetLists : GenerateWebPageWithImagesStart(assets, OptimizerDesign, NULL)

RequestNext ==
  \/ RequestOptimizePrompt \/ OptimizePromptSettle
  \/ RequestGenerateWebPage \/ GenerateWebPageWithImagesSettle
  \/ CallerContinues

RequestSpec == RequestInit /\ [][RequestNext]_vars

\* -------------------------------------------------------- sendChatMessage
ChatReplies == {"plain", "with_code"}

ChatResponses ==
  {[status |-> st, text |-> ""] : st \in {"429", "error", "network"}}
    \cup {[status |-> "ok", text |-> t] : t \in ChatReplies}

\* chatbotService.js lines 219-223
ChatExhausted(c) ==
  Returned(c, [NoResult EXCEPT !.success = FALSE,
                               !.error = IF c.lastError # "" THEN c.lastError
                                         ELSE "All chatbot API keys exhausted"])

\* chatbotService.js line 157
ChatMaxAttempts(keys) == Min(3, Len(keys))

\* chatbotService.js lines 160-180: the head of iteration c.attempt
ChatIterate(c, failed) ==
  IF ~(c.attempt < c.maxAttempts) THEN {[call |-> ChatExhausted(c), failed |-> failed]}
  ELSE LET picks == IF c.attempt = 0
                    THEN {[key |-> c.apiKey, failed |-> failed]}
                    ELSE ChatGetRandomKey(CHATBOT_API_KEYS, failed)
       IN { IF r.key = NULL
            THEN [call |-> ChatExhausted(c), failed |-> r.failed]
            ELSE [call |-> [c EXCEPT !.pc = "await", !.currentKey = r.key,
                                     !.calls = @ + 1, !.used = Append(@, r.key),
                                     !.seen = IF c.attempt = 0 THEN @ ELSE failed],
                  failed |-> r.failed] : r \in picks }

\* chatbotService.js line 128: if (!apiKey)
ChatNoKey(apiKey) == apiKey = NULL

\* chatbotService.js lines 125-180: sendChatMessage up to its first await
SendChatMessageCall ==
  /\ Idle
  /\ \E r \in ChatGetRandomKey(CHATBOT_API_KEYS, failedChatbotKeys) :
       IF ChatNoKey(r.key)
       THEN /\ call' = Returned([NoCall EXCEPT !.fn = "sendChatMessage"],
                                [NoResult EXCEPT
                                   !.success = FALSE,
                                   !.error = "No chatbot API keys configured. Please add VITE_CHATBOT_API_KEYS to your .env file."])
            /\ failedChatbotKeys' = r.failed
       ELSE \E o \in ChatIterate([NoCall EXCEPT !.fn = "sendChatMessage",
                                                !.apiKey = r.key,
                                                !.maxAttempts = ChatMaxAttempts(CHATBOT_API_KEYS)],
                                 r.failed) :
              /\ call' = o.call
              /\ failedChatbotKeys' = o.failed
  /\ UNCHANGED <<GEMINI_API_KEYS, CHATBOT_API_KEYS, SAMBANOVA_API_KEY,
                 failedKeys, sel, cov, app, parser, conc>>

\* chatbotService.js lines 182-217: the provider call settles
SendChatMessageResponse(resp) ==
  /\ call.fn = "sendChatMessage" /\ call.pc = "await"
  /\ LET c0 == [call EXCEPT !.lastStatus = resp.status]
     IN CASE resp.status = "429" ->
               \E o \in ChatIterate([c0 EXCEPT !.attempt = @ + 1],
                                    MarkKeyFailed(failedChatbotKeys, call.currentKey)) :
                 call' = o.call /\ failedChatbotKeys' = o.failed
          [] resp.status = "error" ->
               \E o \in ChatIterate([c0 EXCEPT !.attempt = @ + 1,
                                               !.lastError = "API request failed"],
                                    failedChatbotKeys) :
                 call' = o.call /\ failedChatbotKeys' = o.failed
          [] resp.status = "network" ->
               \E o \in ChatIterate([c0 EXCEPT !.attempt = @ + 1,
                                               !.lastError = "Failed to fetch"],
                                    failedChatbotKeys) :
                 call' = o.call /\ failedChatbotKeys' = o.failed
          [] resp.status = "ok" ->
               /\ call' = Returned(c0, [NoResult EXCEPT
                                          !.success = TRUE,
                                          !.message = resp.text,
                                          !.hasCodeChanges = (resp.text = "with_code")])
               /\ failedChatbotKeys' = failedChatbotKeys
  /\ UNCHANGED <<GEMINI_API_KEYS, CHATBOT_API_KEYS, SAMBANOVA_API_KEY,
                 failedKeys, sel, cov, app, parser, conc>>

SendChatMessageSettle == \E resp \in ChatResponses : SendChatMessageResponse(resp)

\* The chatbot service on its own: it never reads the Gemini pool or the
\* SambaNova key.
ChatInit ==
  /\ GEMINI_API_KEYS = <<>>
  /\ CHATBOT_API_KEYS \in {KeySeq(n) : n \in 0..MaxChatKeys}
  /\ SAMBANOVA_API_KEY = TRUE
  /\ failedKeys = {}
  /\ failedChatbotKeys = {}
  /\ sel = NoSel
  /\ app = NoApp
  /\ parser = NoParse
  /\ conc = NoConc
  /\ cov = NoCov
  /\ call = NoCall

ChatNext == SendChatMessageCall \/ SendChatMessageSettle \/ CallerContinues

ChatSpec == ChatInit /\ [][ChatNext]_vars

\* Every entry point of the core.  The two pools are independent (no
\* function reads both), so each configuration varies one pool and leaves
\* the other without keys.
CoreInit == Init \/ ChatInit

CoreNext == Next \/ SendChatMessageCall \/ SendChatMessageSettle

CoreSpec == CoreInit /\ [][CoreNext]_vars

\* ------------------------------------------- the application (CodeContext)
\* The Optimize and Send buttons of App.jsx and the history drawer drive
\* optimizePromptWithGemini, generateCodeWithAI and loadChat of
\* CodeContext.  Each handler runs to its await; React renders the state it
\* set before the next user event.  The service calls are pending promises
\* here: how they settle is all the application sees of them.
AppUnchanged ==
  UNCHANGED <<GEMINI_API_KEYS, CHATBOT_API_KEYS, SAMBANOVA_API_KEY, failedKeys,
              failedChatbotKeys, sel, cov, call, parser, conc>>

\* geminiService.js line 251 and part_007 line 203
IsGeminiConfigured == Len(GEMINI_API_KEYS) > 0
IsSambaNovaConfigured == SAMBANOVA_API_KEY

\* App.jsx line 449: the prompt textarea changes; text is blank or not
SetPrompt(text) ==
  /\ app.prompt # text
  /\ app' = [app EXCEPT !.prompt = text]
  /\ AppUnchanged

\* App.jsx lines 266-286 and 464-465 with part_001 lines 499-514: the
\* Optimize button (or Ctrl+Enter), enabled while not optimizing and the
\* prompt is not blank
HandleOptimizePrompt ==
  /\ ~app.isOptimizing /\ app.prompt # ""
  /\ IsGeminiConfigured
  /\ app' = [app EXCEPT !.isOptimizing = TRUE, !.optimizedPrompt = "",
                        !.aiError = "", !.optimizeInFlight = TRUE]
  /\ AppUnchanged

\* How an awaited service call settles: it resolves with a result whose
\* success is true or false, or it rejects.
SettleOutcomes == {"success", "failure", "thrown"}

\* aiError after the handler has run its try, catch and finally
AiErrorAfter(outcome, aiError) ==
  CASE outcome = "success" -> aiError
    [] outcome = "failure" -> "result"
    [] outcome = "thrown" -> "thrown"

\* part_001 lines 514-534: geminiService.optimizePrompt settles; the try
\* or the catch runs, then the finally
OptimizeSettlesNoFinally(outcome) ==
  /\ app.optimizeInFlight
  /\ app' = [app EXCEPT !.optimizeInFlight = FALSE,
                        !.isOptimizing = (outcome = "thrown"),
                        !.aiError = AiErrorAfter(outcome, @),
                        !.optimizedPrompt = IF outcome = "success" THEN "optimized" ELSE @]
  /\ AppUnchanged

OptimizeSettles(outcome) ==
  /\ app.optimizeInFlight
  /\ app' = [app EXCEPT !.optimizeInFlight = FALSE, !.isOptimizing = FALSE,
                        !.aiError = AiErrorAfter(outcome, @),
                        !.optimizedPrompt = IF outcome = "success" THEN "optimized" ELSE @]
  /\ AppUnchanged

\* App.jsx lines 288-293, 496 and 531-532 with part_001 lines 538-559: the
\* Send button, rendered while optimizedPrompt is not empty and enabled
\* while not generating; routerGenerateCode is invoked
HandleSendToAI ==
  /\ app.optimizedPrompt # "" /\ ~app.isGenerating
  /\ IsGeminiConfigured \/ IsSambaNovaConfigured
  /\ app' = [app EXCEPT !.isGenerating = TRUE, !.generateInFlight = TRUE,
                        !.aiError = "",
                        !.sent = [prompt |-> app.prompt,
                                  optimizedPrompt |-> app.optimizedPrompt],
                        !.startedDuringOptimize = app.optimizeInFlight]
  /\ AppUnchanged

\* part_001 lines 559-699: routerGenerateCode settles; a success is saved
\* at the head of the chat history with the prompts the handler was
\* started with
GenerateSettles(outcome) ==
  /\ app.generateInFlight
  /\ outcome = "success" => Len(app.chatHistory) < MaxChats
  /\ app' = [app EXCEPT !.generateInFlight = FALSE, !.isGenerating = FALSE,
                        !.startedDuringOptimize = FALSE,
                        !.aiError = AiErrorAfter(outcome, @),
                        !.sent = [prompt |-> "", optimizedPrompt |-> ""],
                        !.chatHistory = IF outcome = "success" THEN <<app.sent>> \o @ ELSE @]
  /\ AppUnchanged

\* part_001 lines 948-950, App.jsx line 391
ToggleHistoryDrawer ==
  /\ app' = [app EXCEPT !.isHistoryDrawerOpen = ~@]
  /\ AppUnchanged

\* part_001 lines 741-793 from part_002 line 283: a chat of the drawer is
\* restored
LoadChat(i) ==
  /\ app.isHistoryDrawerOpen /\ i \in 1..Len(app.chatHistory)
  /\ app' = [app EXCEPT !.prompt = app.chatHistory[i].prompt,
                        !.optimizedPrompt = app.chatHistory[i].optimizedPrompt,
                        !.isHistoryDrawerOpen = FALSE]
  /\ AppUnchanged

\* part_001 lines 929-945 from part_002 lines 247-252: New Chat
StartNewChat ==
  /\ app.isHistoryDrawerOpen
  /\ app' = [app EXCEPT !.prompt = "", !.optimizedPrompt = "",
                        !.isHistoryDrawerOpen = FALSE]
  /\ AppUnchanged

AppInit == Init

AppNext ==
  \/ \E text \in {"", "prompt"} : SetPrompt(text)
  \/ HandleOptimizePrompt
  \/ \E outcome \in SettleOutcomes : OptimizeSettles(outcome)
  \/ HandleSendToAI
  \/ \E outcome \in SettleOutcomes : GenerateSettles(outcome)
  \/ ToggleHistoryDrawer
  \/ \E i \in 1..MaxChats : LoadChat(i)
  \/ StartNewChat

AppSpec == AppInit /\ [][AppNext]_vars

\* A pending service call settles in the end: its fetch is answered or
\* fails, and every await of the two handlers lies in their try blocks.
AppFairSpec ==
  /\ AppInit /\ [][AppNext]_vars
  /\ WF_vars(\E outcome \in SettleOutcomes : OptimizeSettles(outcome))
  /\ WF_vars(\E outcome \in SettleOutcomes : GenerateSettles(outcome))

\* ------------------------------------------- the Output Parser on its own
\* The fenced blocks and stretches of unfenced text a response is made of.
ParserItems ==
  { Block("html", <<Ws, Doctype, HtmlOpen, StyleOpen, Ws, Rule(20), Ws, StyleClose,
                    Txt(40), HtmlClose, Ws>>),
    Block("html", <<Ws>>),
    Block("HTML", <<Txt(30)>>),
    Block("css", <<Ws, Rule(30), Ws>>),
    Block("css", <<Rule(35), FenceChunk, Ws>>),
    Block("css", <<>>),
    Block("", <<Ws, Doctype, HtmlOpen, Txt(50), HtmlClose, Ws, Txt(8)>>),
    Block("", <<BodyTag, StyleOpen, Rule(10), StyleClose, Ws, StyleOpen, Ws,
                StyleClose, StyleOpen, Rule(12), StyleClose>>),
    Block("", <<Rule(25)>>),
    Block("js", <<Txt(20)>>),
    Raw(<<Txt(10), Ws, Doctype, HtmlOpen, Txt(60), HtmlClose, Ws>>),
    Raw(<<Txt(15)>>) }

ParserContents == UNION {[1..n -> ParserItems] : n \in 0..MaxItems}

\* A response text is about to be parsed; the pools play no part.
ParserInit ==
  /\ GEMINI_API_KEYS = <<>>
  /\ CHATBOT_API_KEYS = <<>>
  /\ SAMBANOVA_API_KEY = TRUE
  /\ failedKeys = {}
  /\ failedChatbotKeys = {}
  /\ sel = NoSel
  /\ app = NoApp
  /\ cov = NoCov
  /\ call = NoCall
  /\ parser \in {[NoParse EXCEPT !.content = c] : c \in ParserContents}
  /\ conc = NoConc

\* parseGeneratedCode is applied to the text
ParseResponse ==
  /\ ~parser.parsed
  /\ LET parsedCode == ParseGeneratedCode(parser.content)
     IN parser' = [parser EXCEPT !.parsed = TRUE, !.html = parsedCode.html,
                                 !.css = parsedCode.css]
  /\ UNCHANGED <<GEMINI_API_KEYS, CHATBOT_API_KEYS, SAMBANOVA_API_KEY, failedKeys,
                 failedChatbotKeys, sel, cov, call, app, conc>>

ParserNext == ParseResponse

ParserSpec == ParserInit /\ [][ParserNext]_vars

\* ------------------------------------------------ two concurrent calls
\* Two callers run optimizePrompt or generateWebPageWithImages at the same
\* time.  Each runs without interruption from one await of fetch to the
\* next; the pool they share is failedKeys.  A provider answer is a 429, an
\* answer that ends the attempt without success (a remote or network error,
\* or output that fails validation), or one that ends the call.
ConcOutcomes == {"429", "retry", "done"}

\* geminiService.js lines 337 and 533: the loop conditions
ConcLoopRuns(c) ==
  IF c.fn = "optimizePrompt" THEN OptLoopRuns(c.attempt) ELSE c.attempt < c.maxAttempts

ConcIterateKeepsKey(c, failed) ==
  IF ~ConcLoopRuns(c) THEN {[call |-> [c EXCEPT !.pc = "returned"], failed |-> failed]}
  ELSE {[call |-> [c EXCEPT !.pc = "await",
                            !.currentKey = IF c.attempt = 0 THEN c.apiKey ELSE @,
                            !.calls = @ + 1],
         failed |-> failed]}

\* lines 338-341 and 534-540: the head of an iteration, up to the fetch
ConcIterate(c, failed) ==
  IF ~ConcLoopRuns(c) THEN {[call |-> [c EXCEPT !.pc = "returned"], failed |-> failed]}
  ELSE LET picks == IF c.attempt = 0
                    THEN {[key |-> c.apiKey, failed |-> failed]}
                    ELSE GetRandomKey(GEMINI_API_KEYS, failed, c.apiKey)
       IN { IF r.key = NULL
            THEN [call |-> [c EXCEPT !.pc = "returned"], failed |-> r.failed]
            ELSE [call |-> [c EXCEPT !.pc = "await", !.currentKey = r.key,
                                     !.calls = @ + 1],
                  failed |-> r.failed] : r \in picks }

\* lines 279-341 and 471-540: caller p enters fn and runs to its first fetch
ConcStart(p, fn, excludeKey) ==
  /\ conc[p].pc = "idle"
  /\ \E r \in GetRandomKey(GEMINI_API_KEYS, failedKeys, excludeKey) :
       IF NoKey(r.key)
       THEN /\ conc' = [conc EXCEPT ![p] = [@ EXCEPT !.fn = fn, !.pc = "thrown"]]
            /\ failedKeys' = r.failed
       ELSE \E o \in ConcIterate([conc[p] EXCEPT
                                    !.fn = fn, !.apiKey = r.key,
                                    !.maxAttempts = GenMaxAttempts(GEMINI_API_KEYS)],
                                 r.failed) :
              /\ conc' = [conc EXCEPT ![p] = o.call]
              /\ failedKeys' = o.failed
  /\ UNCHANGED <<GEMINI_API_KEYS, CHATBOT_API_KEYS, SAMBANOVA_API_KEY,
                 failedChatbotKeys, sel, cov, call, app, parser>>

\* lines 361-408 and 555-600: the fetch of caller p settles and p runs to
\* its next fetch or to its return
ConcResponse(p, outcome) ==
  /\ conc[p].pc = "await"
  /\ CASE outcome = "429" ->
            \E o \in ConcIterate([conc[p] EXCEPT !.attempt = @ + 1],
                                 MarkKeyFailed(failedKeys, conc[p].currentKey)) :
              conc' = [conc EXCEPT ![p] = o.call] /\ failedKeys' = o.failed
       [] outcome = "retry" ->
            \E o \in ConcIterate([conc[p] EXCEPT !.attempt = @ + 1], failedKeys) :
              conc' = [conc EXCEPT ![p] = o.call] /\ failedKeys' = o.failed
       [] outcome = "done" ->
            /\ conc' = [conc EXCEPT ![p] = [@ EXCEPT !.pc = "returned"]]
            /\ failedKeys' = failedKeys
  /\ UNCHANGED <<GEMINI_API_KEYS, CHATBOT_API_KEYS, SAMBANOVA_API_KEY,
                 failedChatbotKeys, sel, cov, call, app, parser>>

\* Any failed set may be left over from earlier calls.
ConcInit ==
  /\ GEMINI_API_KEYS \in {KeySeq(n) : n \in 0..MaxKeys}
  /\ CHATBOT_API_KEYS = <<>>
  /\ SAMBANOVA_API_KEY = TRUE
  /\ failedKeys \in SUBSET Range(GEMINI_API_KEYS)
  /\ failedChatbotKeys = {}
  /\ sel = NoSel
  /\ app = NoApp
  /\ cov = NoCov
  /\ call = NoCall
  /\ parser = NoParse
  /\ conc = NoConc

ConcCall ==
  \E p \in Procs, fn \in {"optimizePrompt", "generateWebPageWithImages"},
     x \in KeyIds \cup {NULL} :
    /\ fn = "optimizePrompt" => x = NULL
    /\ ConcStart(p, fn, x)

ConcSettle == \E p \in Procs, outcome \in ConcOutcomes : ConcResponse(p, outcome)

ConcNext == ConcCall \/ ConcSettle

ConcSpec == ConcInit /\ [][ConcNext]_vars

\* ------------------------------------------- the chatbot in the application
\* What chatbotService.sendChatMessage settles with: a reply with or without
\* a code modification (chatbotService.js lines 201-207, modifiedHtml and
\* modifiedCss being null when absent), a failure (lines 219-223), or a
\* rejection.
ChatbotResults ==
  {[success |-> TRUE, hasCodeChanges |-> h # "" \/ c # "", modifiedHtml |-> h,
    modifiedCss |-> c] : h \in {"", "html_a", "html_b"}, c \in {"", "css_a"}}
    \cup {[success |-> FALSE, hasCodeChanges |-> FALSE, modifiedHtml |-> "",
           modifiedCss |-> ""]}

\* The project has its index.html and styles.css or lacks them.
ChatbotInit ==
  /\ GEMINI_API_KEYS = <<>>
  /\ CHATBOT_API_KEYS \in {KeySeq(n) : n \in 0..MaxChatKeys}
  /\ SAMBANOVA_API_KEY = TRUE
  /\ failedKeys = {}
  /\ failedChatbotKeys = {}
  /\ sel = NoSel
  /\ cov = NoCov
  /\ call = NoCall
  /\ parser = NoParse
  /\ conc = NoConc
  /\ app \in {[NoApp EXCEPT !.files = [html |-> h, css |-> c]] :
                h \in {"", "html_0"}, c \in {"", "css_0"}}

\* part_006 lines 87-94 with part_001 lines 967-980: a message is sent from
\* the chatbot panel, whose input is disabled while a reply is awaited
SendChatbotMessage ==
  /\ ~app.chatbotLoading
  /\ Len(app.chatbotMessages) + 2 <= MaxMessages
  /\ app' = [app EXCEPT !.chatbotMessages = Append(@, "user"),
                        !.chatbotLoading = TRUE,
                        !.pendingCodeChanges = NoPending,
                        !.chatbotInFlight = TRUE]
  /\ AppUnchanged

SendChatbotMessageAutoApplies(result) ==
  /\ app.chatbotInFlight
  /\ app' = [app EXCEPT
               !.chatbotInFlight = FALSE,
               !.chatbotLoading = FALSE,
               !.chatbotMessages =
                  Append(@, IF result.success THEN "assistant" ELSE "error"),
               !.files = IF result.success /\ result.hasCodeChanges
                         THEN [html |-> IF result.modifiedHtml # ""
                                        THEN result.modifiedHtml ELSE @.html,
                               css |-> IF result.modifiedCss # ""
                                       THEN result.modifiedCss ELSE @.css]
                         ELSE @]
  /\ AppUnchanged

\* part_001 lines 981-1006: sendChatMessage settles; a reply with code
\* changes becomes the pending modification
SendChatbotMessageSettles(result) ==
  /\ app.chatbotInFlight
  /\ app' = [app EXCEPT
               !.chatbotInFlight = FALSE,
               !.chatbotLoading = FALSE,
               !.chatbotMessages =
                  Append(@, IF result.success THEN "assistant" ELSE "error"),
               !.pendingCodeChanges =
                  IF result.success /\ result.hasCodeChanges
                  THEN [present |-> TRUE, html |-> result.modifiedHtml,
                        css |-> result.modifiedCss]
                  ELSE @]
  /\ AppUnchanged

\* part_006 lines 111-115 and 276-286 with part_001 lines 1010-1072: the
\* Apply Code Changes button, rendered while a modification is pending
ApplyChatbotCodeChanges ==
  /\ app.pendingCodeChanges.present
  /\ app' = [app EXCEPT
               !.files = [html |-> IF app.pendingCodeChanges.html # ""
                                   THEN app.pendingCodeChanges.html ELSE @.html,
                          css |-> IF app.pendingCodeChanges.css # ""
                                  THEN app.pendingCodeChanges.css ELSE @.css],
               !.pendingCodeChanges = NoPending]
  /\ AppUnchanged

\* part_001 lines 1075-1078, part_006 line 195
ClearChatbotHistory ==
  /\ app.chatbotMessages # <<>> \/ app.pendingCodeChanges.present
  /\ app' = [app EXCEPT !.chatbotMessages = <<>>, !.pendingCodeChanges = NoPending]
  /\ AppUnchanged

ChatbotNext ==
  \/ SendChatbotMessage
  \/ \E result \in ChatbotResults : SendChatbotMessageSettles(result)
  \/ ApplyChatbotCodeChanges
  \/ ClearChatbotHistory

ChatbotSpec == ChatbotInit /\ [][ChatbotNext]_vars

\* ------------------------------------------------------------- properties
CurFailed(pool) == IF pool = "gemini" THEN failedKeys ELSE failedChatbotKeys

\* C6: a Gemini selection that excludes X never returns X when at least one
\* other credential is configured, whatever the failed set.
C6_ExcludedNeverReturned ==
  (sel.op = "select" /\ sel.pool = "gemini" /\ sel.excl # NULL
     /\ Range(GEMINI_API_KEYS) \ {sel.excl} # {})
  => sel.ret # sel.excl

\* reached: every other key had failed, so the selection went through the
\* automatic reset, and still returned a key other than the excluded one
C6_Witness ==
  /\ sel.op = "select" /\ sel.pool = "gemini"
  /\ sel.excl \in Range(GEMINI_API_KEYS)
  /\ Range(GEMINI_API_KEYS) \ {sel.excl} # {}
  /\ Range(GEMINI_API_KEYS) \ {sel.excl} \subseteq sel.before
  /\ sel.ret # NULL /\ sel.ret # sel.excl

C8_ReturnedKeyNotFailed ==
  (sel.op = "select" /\ sel.ret # NULL)
  => /\ sel.ret \notin CurFailed(sel.pool)
     /\ (sel.ret \in sel.before => CurFailed(sel.pool) = {})

\* reached: a key marked failed earlier comes back after the automatic reset
C8_Witness ==
  /\ sel.op = "select" /\ sel.pool = "gemini"
  /\ sel.ret \in sel.before
  /\ failedKeys = {}

Distinct(s, n) == \A i, j \in 1..Min(Len(s), n) : i # j => s[i] # s[j]

\* C9: in a select-then-mark-failed run over N > 0 credentials every
\* credential has been returned once 2N - 1 selections were made, and from
\* an empty failed set the first N selections return N distinct credentials.
C9_Coverage ==
  /\ (Len(GEMINI_API_KEYS) > 0 /\ Len(cov.gemini) >= 2 * Len(GEMINI_API_KEYS) - 1)
        => Range(cov.gemini) = Range(GEMINI_API_KEYS)
  /\ (cov.gstart = {}) => Distinct(cov.gemini, Len(GEMINI_API_KEYS))
  /\ (Len(CHATBOT_API_KEYS) > 0 /\ Len(cov.chatbot) >= 2 * Len(CHATBOT_API_KEYS) - 1)
        => Range(cov.chatbot) = Range(CHATBOT_API_KEYS)
  /\ (cov.cstart = {}) => Distinct(cov.chatbot, Len(CHATBOT_API_KEYS))

\* reached: from an empty failed set, N >= 2 selections covered the pool
C9_Witness ==
  /\ Len(GEMINI_API_KEYS) >= 2
  /\ cov.gstart = {}
  /\ Len(cov.gemini) = Len(GEMINI_API_KEYS)
  /\ Range(cov.gemini) = Range(GEMINI_API_KEYS)

\* the call went through the router (generateCode)
ViaRouter == call.via = "router"

AnyImage(assets) == \E i \in 1..Len(assets) : assets[i].type = "image"

\* C1: in every generateCode call, an asset list with an image invokes the
\* vision pipeline and never the text pipeline, an asset list without image
\* invokes the text pipeline and never the vision pipeline, and a returned
\* result is tagged with the pipeline that was invoked.
C1_RoutingByImages ==
  ViaRouter =>
    /\ AnyImage(call.assets) =>
         /\ call.invoked \subseteq {"gemini"}
         /\ call.pc # "await_hf" => call.invoked = {"gemini"}
         /\ call.pc = "returned" => call.result.pipeline = "gemini"
    /\ ~AnyImage(call.assets) =>
         /\ call.invoked = {"sambanova"}
         /\ call.pc = "returned" => call.result.pipeline = "sambanova"

\* reached: a call with an image returned a successful result of the vision
\* pipeline
C1_Witness ==
  /\ ViaRouter /\ call.pc = "returned" /\ AnyImage(call.assets)
  /\ call.result.success /\ call.result.pipeline = "gemini"
  /\ call.invoked = {"gemini"}

\* a flat-mode (HTML/CSS) generation call, on either pipeline
FlatGeneration ==
  /\ call.fn \in {"generateWebPageWithImages", "generateCode"}
  /\ call.framework # "react"

\* C2: a flat-mode generation that returns success = true returns an html of
\* at least 100 characters and a css of at least 50, on either pipeline.
C2_SuccessMeetsFloors ==
  (FlatGeneration /\ call.pc = "returned" /\ call.result.success)
  => (StrLen(call.result.html) >= 100 /\ StrLen(call.result.css) >= 50)

\* C3: optimizePrompt returns success = true only with a design spec that is
\* not null and has both layout and colors.
C3_SuccessHasValidDesign ==
  (call.fn = "optimizePrompt" /\ call.pc = "returned" /\ call.result.success)
  => /\ ~call.result.designJSON.null
     /\ call.result.designJSON.layout
     /\ call.result.designJSON.colors

\* reached: success on a later attempt, after an earlier attempt was refused
C3_Witness ==
  /\ call.fn = "optimizePrompt" /\ call.pc = "returned" /\ call.result.success
  /\ call.calls >= 2

\* the last response of the optimize call was a 2xx whose text yields no
\* design JSON, or one without layout or without colors
LastAttemptInvalidJson ==
  /\ call.fn = "optimizePrompt"
  /\ call.lastStatus = "ok"
  /\ LET d == ParseOptimizationOutput(call.lastRawOutput).designJSON
     IN d.null \/ ~d.layout \/ ~d.colors

\* C4: an attempt whose response has no parsable JSON, or a JSON without
\* layout or colors, never ends the call with success, and while fewer than
\* 3 attempts were made a further provider call follows it.
C4_InvalidJsonRetried ==
  LastAttemptInvalidJson =>
    /\ ~(call.pc = "returned" /\ call.result.success)
    /\ call.attempt < 3 => (call.pc = "await" /\ call.calls = call.attempt + 1)

\* reached: a JSON without colors was refused and the second call is in flight
C4_Witness ==
  /\ LastAttemptInvalidJson
  /\ ~ParseOptimizationOutput(call.lastRawOutput).designJSON.null
  /\ ~ParseOptimizationOutput(call.lastRawOutput).designJSON.colors
  /\ call.pc = "await" /\ call.calls = 2

\* C5: every optimizePrompt call makes at most 3 provider calls and ends in
\* one of two outcomes: DONE (success with a valid design spec) or
\* EXHAUSTED (success = false).
C5_ThreeCallsDoneOrExhausted ==
  call.fn = "optimizePrompt" =>
    /\ call.calls <= 3
    /\ call.pc \in {"await", "returned"}
    /\ call.pc = "returned" =>
         \/ /\ call.result.success
            /\ ~call.result.designJSON.null
            /\ call.result.designJSON.layout /\ call.result.designJSON.colors
         \/ ~call.result.success

\* C10: no public entry point lets an exception reach its caller; each
\* returns a result value.
C10_NoEntryPointThrows == call.pc # "thrown"

\* the failed set of the pool the executing entry point draws from
CallFailed == IF call.fn = "sendChatMessage" THEN failedChatbotKeys ELSE failedKeys

\* C11: with zero configured credentials, optimizePrompt,
\* generateWebPageWithImages and sendChatMessage settle at once with the
\* configuration error: no provider call, no retry, and the failed set is
\* as it was (empty).
C11_ConfigErrorImmediate ==
  /\ (call.fn \in {"optimizePrompt", "generateWebPageWithImages"}
        /\ Len(GEMINI_API_KEYS) = 0)
     => /\ Settled /\ ~call.result.success
        /\ call.result.error = "No Gemini API keys configured. Please set VITE_GEMINI_API_KEYS in your .env file."
        /\ call.calls = 0 /\ call.attempt = 0 /\ call.used = <<>>
        /\ failedKeys = {}
  /\ (call.fn = "sendChatMessage" /\ Len(CHATBOT_API_KEYS) = 0)
     => /\ Settled /\ ~call.result.success
        /\ call.result.error = "No chatbot API keys configured. Please add VITE_CHATBOT_API_KEYS to your .env file."
        /\ call.calls = 0 /\ call.attempt = 0 /\ call.used = <<>>
        /\ failedChatbotKeys = {}

\* reached: generateWebPageWithImages was called with no key configured
C11_Witness ==
  /\ call.fn = "generateWebPageWithImages" /\ call.via = "direct"
  /\ Len(GEMINI_API_KEYS) = 0
  /\ Settled /\ call.calls = 0

\* C12: when a provider call made with key k is answered 429, k is in the
\* failed set that the next selection of the request reads, so before the
\* next provider call; if the request ends there, k is in the failed set
\* it leaves.
C12_RateLimitedKeyMarked ==
  (call.fn \in {"optimizePrompt", "generateWebPageWithImages", "sendChatMessage"}
     /\ call.lastStatus = "429")
  => /\ call.pc = "await" => call.used[Len(call.used) - 1] \in call.seen
     /\ call.pc = "returned" => call.currentKey \in CallFailed

\* reached: the key answered 429 was marked, and the selection that
\* followed found no key available and cleared the failed set
C12_Witness ==
  /\ call.fn = "optimizePrompt" /\ call.lastStatus = "429" /\ call.pc = "await"
  /\ call.used[Len(call.used) - 1] \in call.seen
  /\ call.used[Len(call.used) - 1] \notin failedKeys

\* the call is executing generateWebPageWithImages, directly or for the router
InGeneration == call.fn = "generateWebPageWithImages"

\* the last answer of the generation call was a 2xx whose parsed html and
\* css reach the floors of 100 and 50 characters
LastAttemptValidated ==
  /\ InGeneration /\ call.lastStatus = "ok"
  /\ StrLen(ParseGeneratedCode(call.lastRawOutput).html) >= 100
  /\ StrLen(ParseGeneratedCode(call.lastRawOutput).css) >= 50

\* C13: a generation call makes at most 3 provider calls, and an attempt
\* whose parsed output reaches the floors ends the call at once with
\* success: no provider call is in flight after a validated attempt.
C13_AtMostThreeFirstValidWins ==
  /\ (InGeneration \/ call.fn = "generateCode") => call.calls <= 3
  /\ LastAttemptValidated => (call.pc = "returned" /\ call.result.success)

\* reached: two attempts were refused and the third, validated, ended the
\* call with success
C13_Witness ==
  /\ LastAttemptValidated /\ call.calls = 3
  /\ call.pc = "returned" /\ call.result.success

\* C14: with at least 3 configured credentials, no credential is used by two
\* attempts of the same generateWebPageWithImages call.
C14_AttemptsUseDistinctKeys ==
  (InGeneration /\ Len(GEMINI_API_KEYS) >= 3)
  => \A i, j \in 1..Len(call.used) : i # j => call.used[i] # call.used[j]

\* C15: within one optimizePrompt call, when the attempt on key k was
\* answered 429 and a further attempt is made, that attempt uses a key other
\* than k, provided at least two credentials are configured.
C15_FailoverAfterRateLimit ==
  (call.fn = "optimizePrompt" /\ call.lastStatus = "429" /\ call.pc = "await"
     /\ Len(GEMINI_API_KEYS) >= 2)
  => call.currentKey # call.used[Len(call.used) - 1]

\* a returned multi-file (react) generation of the vision pipeline
ReactVisionReturned ==
  /\ ViaRouter /\ call.framework = "react" /\ AnyImage(call.assets)
  /\ call.pc = "returned"

C17_SuccessIffFiles ==
  ReactVisionReturned =>
    /\ call.result.success => Len(call.result.files) > 0
    /\ ~call.result.success => call.result.files = <<>>

\* reached: the files cut at the file markers were returned
C17_Witness ==
  /\ ReactVisionReturned /\ call.result.success
  /\ Len(call.result.files) = 1 /\ call.result.files[1].name = "App.tsx"

\* C18: when the pre-processor fails on an image, the router goes on to the
\* vision generation with the documented default design spec (dark theme,
\* blue palette, landing layout with navbar, hero, features, footer), and a
\* provider answer that reaches the floors ends the call with success.
C18_PreprocessorFailureUsesDefault ==
  call.hf = "failed" =>
    /\ InGeneration /\ call.invoked = {"gemini"}
    /\ ~call.design.null
    /\ call.design.isDarkTheme
    /\ call.design.colors.primary = "#3b82f6"
    /\ call.design.colors.background = "#1e1e2e"
    /\ call.design.layout.type = "landing"
    /\ call.design.layout.sections = <<"navbar", "hero", "features", "footer">>
    /\ LastAttemptValidated => (call.pc = "returned" /\ call.result.success)

\* reached: the pre-processor failed and the generation returned success
C18_Witness ==
  /\ call.hf = "failed" /\ ViaRouter
  /\ call.pc = "returned" /\ call.result.success
  /\ call.design.layout.sections = <<"navbar", "hero", "features", "footer">>

\* C19: generateCode is never invoked while an optimizePrompt call is in
\* flight: every invocation of the router starts after each optimizePrompt
\* call started before it has settled.
C19_GenerateAfterOptimize == ~app.startedDuringOptimize

\* C20: an optimizePrompt call that exhausts its attempts returns
\* success = false with a null design spec, and a non-empty optimizedPrompt
\* if any attempt of the call obtained prose from the provider.
C20_ExhaustedKeepsText ==
  (call.fn = "optimizePrompt" /\ call.pc = "returned" /\ ~call.result.success)
  => /\ call.result.designJSON.null
     /\ call.gotText => call.result.optimizedPrompt # <<>>

\* ------------------------------------------------------ the Output Parser
\* the indexes of the fenced blocks of the parsed text carrying a tag
Tagged(lang) ==
  {i \in 1..Len(parser.content) :
     parser.content[i].fenced /\ ToLowerCase(parser.content[i].lang) = lang}

NoBackticks ==
  \A i \in 1..Len(parser.content) : ~HasKind(parser.content[i].body, {"fence"})

\* the text has one block tagged html and one tagged css, every other part
\* of it is unfenced, and no body holds a triple backtick
RoundTripCase ==
  /\ parser.parsed /\ NoBackticks
  /\ Cardinality(Tagged("html")) = 1 /\ Cardinality(Tagged("css")) = 1
  /\ \A i \in 1..Len(parser.content) :
       parser.content[i].fenced => i \in Tagged("html") \cup Tagged("css")

TheBody(lang) == parser.content[CHOOSE i \in Tagged(lang) : TRUE].body

\* C25 as stated: parsing a response in which h is fenced and tagged html
\* and c is fenced and tagged css returns the trimmed h and the trimmed c,
\* for every h and c without a triple backtick.
C25_RoundTripEveryText ==
  RoundTripCase => /\ parser.html = TrimChunks(TheBody("html"))
                   /\ parser.css = TrimChunks(TheBody("css"))

\* C25: parsing a response in which h is fenced and tagged html and c is
\* fenced and tagged css returns the trimmed h and the trimmed c, for every
\* h and c that hold no triple backtick and are not blank.
C25_RoundTrip ==
  (/\ RoundTripCase
   /\ TrimChunks(TheBody("html")) # <<>>
   /\ TrimChunks(TheBody("css")) # <<>>)
  => /\ parser.html = TrimChunks(TheBody("html"))
     /\ parser.css = TrimChunks(TheBody("css"))

C25_Witness ==
  /\ RoundTripCase
  /\ TheBody("html") # TrimChunks(TheBody("html"))
  /\ TheBody("css") # TrimChunks(TheBody("css"))
  /\ HasKind(TheBody("html"), {"style_open"})
  /\ parser.html = TrimChunks(TheBody("html")) /\ parser.html # <<>>
  /\ parser.css = TrimChunks(TheBody("css")) /\ parser.css # <<>>

Blank(body) == TrimChunks(body) = <<>>

\* the first block carrying the tag, and the first one that is not blank
FirstOf(idx) == CHOOSE i \in idx : \A j \in idx : i <= j

NonBlank(lang) == {i \in Tagged(lang) : ~Blank(parser.content[i].body)}

Slot(lang) == IF lang = "html" THEN parser.html ELSE parser.css

\* C26 as stated: each slot holds the first block carrying its tag, later
\* blocks with that tag being ignored.
C26_FirstTaggedWins ==
  (parser.parsed /\ NoBackticks)
  => \A lang \in {"html", "css"} :
       Tagged(lang) # {}
       => Slot(lang) = TrimChunks(parser.content[FirstOf(Tagged(lang))].body)

\* C26: blocks are classified by language tag first and the first block of a
\* tag that is not blank wins its slot: later blocks with the tag, untagged
\* blocks and unfenced text do not change that slot.
C26_FirstNonBlankTaggedWins ==
  (parser.parsed /\ NoBackticks)
  => \A lang \in {"html", "css"} :
       NonBlank(lang) # {}
       => Slot(lang) = TrimChunks(parser.content[FirstOf(NonBlank(lang))].body)

C26_Witness ==
  /\ parser.parsed /\ NoBackticks
  /\ Cardinality(NonBlank("html")) = 2
  /\ \E i, j \in NonBlank("html") :
       /\ i < j /\ parser.content[i].body # parser.content[j].body
       /\ parser.html = TrimChunks(parser.content[i].body)
  /\ \E k \in 1..Len(parser.content) :
       /\ parser.content[k].fenced /\ parser.content[k].lang = ""
       /\ HasKind(parser.content[k].body, {"doctype"})

\* the untagged fenced blocks whose body holds one of the kinds
Untagged(kinds) ==
  {i \in 1..Len(parser.content) :
     /\ parser.content[i].fenced /\ parser.content[i].lang = ""
     /\ HasKind(parser.content[i].body, kinds)}

\* C27 as stated: with no block tagged html in the response, every untagged
\* block holding <!DOCTYPE html> is returned as the html.
C27_UntaggedDoctypeIsHtml ==
  (parser.parsed /\ NoBackticks /\ Tagged("html") = {})
  => \A i \in Untagged({"doctype"}) :
       parser.html = TrimChunks(parser.content[i].body)

\* C27: with no block tagged html in the response, an untagged block
\* holding <!DOCTYPE html> is returned as the html when no untagged block
\* holding <!DOCTYPE, <html, <head or <body comes before it.
C27_FirstUntaggedMarkupIsHtml ==
  (parser.parsed /\ NoBackticks /\ Tagged("html") = {})
  => \A i \in Untagged({"doctype"}) :
       i = FirstOf(Untagged(HtmlMarkers))
       => parser.html = TrimChunks(parser.content[i].body)

C27_Witness ==
  /\ parser.parsed /\ NoBackticks /\ Tagged("html") = {}
  /\ \E i \in Untagged({"doctype"}) :
       /\ i = FirstOf(Untagged(HtmlMarkers))
       /\ Cardinality(Untagged(HtmlMarkers)) = 2
       /\ parser.html = TrimChunks(parser.content[i].body)
       /\ parser.html # TrimChunks(RawDocument(Flatten(parser.content)))

\* texts one after the other with a blank line between them
RECURSIVE SeparatedByBlankLine(_)
SeparatedByBlankLine(parts) ==
  IF Len(parts) = 0 THEN <<>>
  ELSE IF Len(parts) = 1 THEN parts[1]
       ELSE parts[1] \o <<Ws, Ws>>
              \o SeparatedByBlankLine(Tail(parts))

\* C30: the parser's strategies run in order.  The raw-document fallback
\* gives the html only when no fenced block filled the HTML slot, and the
\* contents of the <style> elements of the html, in document order with a
\* blank line between them, give the css only when no block filled the CSS
\* slot and html was found.
C30_StrategiesInOrder ==
  parser.parsed
  => LET slots == BlockSlots(parser.content)
         doc == TrimChunks(RawDocument(Flatten(parser.content)))
         styles == ExtractedStyles(parser.html)
     IN /\ slots.html # <<>> => parser.html = slots.html
        /\ slots.html = <<>> => parser.html = doc
        /\ slots.css # <<>> => parser.css = slots.css
        /\ (slots.css = <<>> /\ parser.html # <<>> /\ Len(styles) > 0)
           => parser.css = SeparatedByBlankLine(styles)
        /\ (slots.css = <<>> /\ (parser.html = <<>> \/ Len(styles) = 0))
           => parser.css = <<>>

\* a block filled the HTML slot although the text holds a raw document, and
\* the css is made of the three <style> elements of the html
C30_Witness ==
  /\ parser.parsed
  /\ BlockSlots(parser.content).html # <<>>
  /\ BlockSlots(parser.content).css = <<>>
  /\ HasKind(Flatten(parser.content), {"html_close"})
  /\ parser.html = BlockSlots(parser.content).html
  /\ ~HasKind(parser.html, {"html_close"})
  /\ Len(ExtractedStyles(parser.html)) = 3
  /\ parser.css = SeparatedByBlankLine(ExtractedStyles(parser.html))

\* ------------------------------------------------------ the pools, again
\* C23: markKeyFailed is idempotent.  Marking a key that is already in the
\* failed set leaves the failed set, and the failed-key count, as they were.
C23_MarkFailedIdempotent ==
  (sel.op = "mark" /\ sel.ret \in sel.before)
  => /\ CurFailed(sel.pool) = sel.before
     /\ GetFailedKeyCount(CurFailed(sel.pool)) = GetFailedKeyCount(sel.before)

\* a key was marked again while another key had failed too
C23_Witness ==
  /\ sel.op = "mark" /\ sel.pool = "gemini" /\ sel.ret \in sel.before
  /\ GetFailedKeyCount(sel.before) = 2
  /\ GetFailedKeyCount(failedKeys) = 2

\* ------------------------------------------------- generation, continued
\* C21: a generation call that exhausts its attempts returns a failure with
\* a non-empty error message, and with the raw text of the provider as its
\* raw output when an attempt received text.
C21_ExhaustedKeepsRawOutput ==
  (InGeneration /\ call.via = "direct" /\ call.pc = "returned" /\ ~call.result.success)
  => /\ call.result.error # ""
     /\ (call.lastRawOutput # <<>> => call.result.rawContent # <<>>)

\* C28: generateWebPageWithImages keeps away from the key it is told to
\* exclude: with at least two other credentials configured, no attempt of
\* the call, first or retry, is made with excludeKey.
C28_ExcludedKeyNeverUsed ==
  (/\ InGeneration /\ call.via = "direct" /\ call.excludeKey # NULL
   /\ Cardinality(Range(GEMINI_API_KEYS) \ {call.excludeKey}) >= 2)
  => \A i \in 1..Len(call.used) : call.used[i] # call.excludeKey

\* C29: on the vision pipeline in multi-file mode, a provider text from
\* which the multi-file extractor recovers at least one file is returned as
\* success = true with exactly the recovered files in source order, whether
\* or not flat html and css can be recovered from it too.
C29_FilesRecoveredSucceed ==
  (/\ ReactVisionReturned /\ call.lastStatus = "ok"
   /\ Len(ParseReactOutput(Flatten(call.lastRawOutput))) > 0)
  => /\ call.result.success
     /\ call.result.files = ParseReactOutput(Flatten(call.lastRawOutput))

\* ------------------------------------------------ two concurrent calls
\* C22: under every interleaving of two concurrent calls, no provider
\* request is issued with a credential that is in the failed set at the
\* moment it is issued: a step in which a caller issues a request leaves
\* that request's key outside the failed set.
C22_IssuedKeyNotFailed ==
  [][\A p \in Procs :
       conc'[p].calls > conc[p].calls => conc'[p].currentKey \notin failedKeys']_vars

\* both callers are past a retry and have a request in flight: the key of
\* the first has since been marked failed by the second, whose own request
\* went out with a key that is not failed
C22_Witness ==
  /\ conc[1].pc = "await" /\ conc[2].pc = "await"
  /\ conc[1].attempt >= 1 /\ conc[2].attempt >= 1
  /\ conc[1].currentKey \in failedKeys
  /\ conc[2].currentKey \notin failedKeys
  /\ conc[1].fn # conc[2].fn

\* ------------------------------------------------------------ the chatbot
\* C24: a code modification proposed by the chatbot is never applied by
\* itself.  The project's files change only in a step of
\* applyChatbotCodeChanges, which takes the pending modification; the
\* settling of a send leaves the files as they are and only sets the
\* pending modification.
C24_NeverAutoApplied ==
  [][/\ app'.files # app.files
        => /\ app.pendingCodeChanges.present
           /\ ~app'.pendingCodeChanges.present
           /\ app'.chatbotInFlight = app.chatbotInFlight
     /\ (app.chatbotInFlight /\ ~app'.chatbotInFlight) => app'.files = app.files]_vars

\* a reply set a pending modification that differs from the project's
\* files, which are as they were
C24_Witness ==
  /\ app.pendingCodeChanges.present
  /\ app.pendingCodeChanges.html = "html_a"
  /\ app.files.html = "html_0"
  /\ app.chatbotMessages = <<"user", "assistant">>

\* C36: in the content pass an untagged block holding <!DOCTYPE, <html, <head
\* or <body never becomes the css, whatever blocks the response is made of,
\* those whose html came from a tagged block included.
C36_MarkupNeverCss ==
  (parser.parsed /\ NoBackticks)
  => \A i \in Untagged(HtmlMarkers) :
       BlockSlots(parser.content).css # TrimChunks(parser.content[i].body)

\* C32: a selection clears the failed set only when every configured
\* credential had failed, and so never returns a credential that had failed
\* while some configured credential had not.
C32_ResetOnlyWhenAllFailed ==
  (sel.op = "select" /\ sel.ret # NULL)
  => /\ (sel.before # {} /\ CurFailed(sel.pool) = {})
        => (IF sel.pool = "gemini" THEN Range(GEMINI_API_KEYS)
                                   ELSE Range(CHATBOT_API_KEYS)) \subseteq sel.before
     /\ sel.ret \in sel.before
        => (IF sel.pool = "gemini" THEN Range(GEMINI_API_KEYS)
                                   ELSE Range(CHATBOT_API_KEYS)) \subseteq sel.before

\* the attempt that has just settled got a 2xx answer whose parsed output
\* is below the thresholds
BelowThresholds(c) ==
  c.lastStatus = "ok" /\ ~OutputComplete(ParseGeneratedCode(c.lastRawOutput))

\* C31: in generateWebPageWithImages an attempt whose output is below the
\* thresholds and an attempt answered with a non-2xx status other than 429
\* are followed alike: the next attempt is made when one remains, the call
\* returns a failure when none does, and the key of the attempt is not added
\* to the failed set.
C31_ValidationFailureRetriedLikeError ==
  [][(/\ call.fn = "generateWebPageWithImages" /\ call.pc = "await"
      /\ call' # call
      /\ (call'.lastStatus = "error" \/ BelowThresholds(call')))
     => /\ failedKeys' \subseteq failedKeys
        /\ IF call.attempt + 1 < call.maxAttempts
           THEN /\ call'.pc = "await"
                /\ call'.attempt = call.attempt + 1
                /\ call'.calls = call.calls + 1
           ELSE call'.pc = "returned" /\ ~call'.result.success]_vars

\* reached: the second attempt is awaited after an attempt whose output was
\* below the thresholds, and no key is in the failed set
C31_Witness ==
  /\ call.fn = "generateWebPageWithImages" /\ call.pc = "await"
  /\ call.attempt = 1 /\ call.calls = 2
  /\ BelowThresholds(call)
  /\ call.lastRawOutput # <<>>
  /\ failedKeys = {}

\* the step settles an awaited Gemini provider call with a 429
RateLimitedStep ==
  call.pc = "await" /\ call' # call /\ call'.lastStatus = "429"

\* the failed set as the step's key selection, if it makes one, finds it
FailedAtSelection ==
  IF RateLimitedStep THEN MarkKeyFailed(failedKeys, call.currentKey) ELSE failedKeys

\* the step selects a key and every configured key, the excluded one apart,
\* is in the failed set the selection finds
AutomaticReset ==
  /\ call' # call /\ call'.calls = call.calls + 1
  /\ Range(GEMINI_API_KEYS) \ FailedAtSelection
       \subseteq {IF call.pc = "await" THEN call.apiKey ELSE call'.excludeKey}

\* C34: the failed set of the Gemini pool changes in three ways only: the
\* key of a provider call answered 429 is added, the automatic reset of a
\* key selection empties it, resetFailedKeys empties it.  A step that
\* settles a provider call with a remote error, a network failure, an
\* invalid JSON or an output below the thresholds adds nothing to it.
C34_FailedSetFrame ==
  [][/\ \/ failedKeys' = FailedAtSelection
        \/ failedKeys' = {} /\ AutomaticReset
        \/ failedKeys' = {} /\ call' = call
     /\ (call.pc = "await" /\ call' # call /\ call'.lastStatus # "429")
        => (failedKeys' = failedKeys \/ (failedKeys' = {} /\ AutomaticReset))]_vars

\* reached: an attempt was answered 429 and its key is in the failed set,
\* the next attempt was answered with an error and the set is as it was
C34_Witness ==
  /\ call.fn = "generateWebPageWithImages" /\ call.pc = "await"
  /\ call.attempt = 2 /\ call.lastStatus = "error"
  /\ failedKeys = {call.used[1]}

\* the image assets of the call in flight, in the order they were supplied
ImageAssetsOf(c) == SelectSeq(c.assets, IsImage)

\* C33: every request of optimizePrompt and generateWebPageWithImages holds
\* at most 5 inline image parts, they come from the first 5 image assets in
\* the order of the assets, and they all precede the text prompt, which is
\* the last part, however many image assets are supplied.
C33_AtMostFiveImagesFirst ==
  (call.fn \in {"optimizePrompt", "generateWebPageWithImages"} /\ call.pc = "await")
  => LET parts == call.parts
         n == Len(parts)
     IN /\ n >= 1 /\ n - 1 <= 5
        /\ parts[n].kind = "text"
        /\ \A i \in 1..(n - 1) :
             /\ parts[i].kind = "inline_data"
             /\ parts[i].image \in 1..5
             /\ parts[i].image <= Len(ImageAssetsOf(call))
             /\ ImageAssetsOf(call)[parts[i].image].data = "data"
        /\ \A i, j \in 1..(n - 1) : i < j => parts[i].image < parts[j].image

\* reached: six image assets with data are supplied to a generation and the
\* request in flight holds five image parts and the text
C33_Witness ==
  /\ call.fn = "generateWebPageWithImages" /\ call.pc = "await"
  /\ call.calls = 1
  /\ Len(ImageAssetsOf(call)) = 6
  /\ \A i \in 1..6 : ImageAssetsOf(call)[i].data = "data"
  /\ Len(call.parts) = 6
  /\ call.parts[5].image = 5 /\ call.parts[6].kind = "text"

\* the configured keys of the pool the call in flight draws from
PoolOf(c) == IF c.fn = "sendChatMessage" THEN CHATBOT_API_KEYS ELSE GEMINI_API_KEYS

\* C35: one generateWebPageWithImages call and one sendChatMessage call make
\* at most min(3, number of configured keys) provider calls; with a single
\* key a first attempt that is rate limited or below the thresholds is the
\* only one and the call returns a failure.
C35_CallsBoundedByKeys ==
  (call.fn \in {"generateWebPageWithImages", "sendChatMessage"})
  => /\ call.calls <= Min(3, Len(PoolOf(call)))
     /\ (/\ Len(PoolOf(call)) = 1 /\ call.calls = 1
         /\ call.pc # "await"
         /\ \/ call.lastStatus = "429"
            \/ call.fn = "generateWebPageWithImages" /\ BelowThresholds(call))
        => (call.pc = "returned" /\ ~call.result.success /\ call.attempt = 1)

\* reached: with one Gemini key configured the first attempt came back below
\* the thresholds and the call returned a failure after that one request
C35_Witness ==
  /\ call.fn = "generateWebPageWithImages" /\ call.via = "direct"
  /\ Len(GEMINI_API_KEYS) = 1
  /\ call.pc = "returned" /\ ~call.result.success
  /\ BelowThresholds(call) /\ call.lastRawOutput # <<>>
  /\ call.calls = 1

\* C37: the in-flight flags are released whatever the outcome of the
\* awaited call: isOptimizing is true exactly while optimizePrompt is
\* pending and isGenerating exactly while routerGenerateCode is pending, and
\* once true each of them becomes false again, so the buttons are enabled
\* again.
C37_FlagsReleased ==
  /\ [](app.isOptimizing <=> app.optimizeInFlight)
  /\ [](app.isGenerating <=> app.generateInFlight)
  /\ (app.isOptimizing ~> ~app.isOptimizing)
  /\ (app.isGenerating ~> ~app.isGenerating)

\* reached: the awaited call rejected, the catch recorded the error and both
\* flags are false with a prompt in place, so Optimize can be pressed again
C37_Witness ==
  /\ app.aiError = "thrown"
  /\ ~app.isOptimizing /\ ~app.isGenerating
  /\ app.prompt # "" /\ app.optimizedPrompt = ""

====
